---------------------------- MODULE Spec2Model ----------------------------
(***************************************************************************)
(* Query-execution pipeline of campanhas/views.py.                         *)
(*                                                                         *)
(* The persisted tables (ConsultaExecucao, ClienteConsultado,              *)
(* ConsultaCliente) are the shared state.  Every call of                   *)
(* processar_consulta_completa is a background thread with its own         *)
(* in-memory copy of the run row; it advances one database access at a     *)
(* time, so that requests and other threads interleave with it exactly     *)
(* where the code reads or writes the database.  The request handlers      *)
(* (iniciar_processamento, cancelar_processamento,                         *)
(* reiniciar_processamento) are one step each.                             *)
(*                                                                         *)
(* The messaging pipeline (EnvioHSMMatrix, EnvioHSMIndividual,             *)
(* processar_envio_hsm_background and its request handlers) is modelled    *)
(* the same way; HubsoftAPI is the token cache of each query thread, the   *)
(* enrichment service being a variable fixed by the initial state.         *)
(***************************************************************************)
EXTENDS Integers, Sequences, FiniteSets, TLC

VARIABLES
    execucoes,        \* ConsultaExecucao rows, indexed by id (1..Len)
    resultados_sql,   \* per run: the rows its SQL statement returns
    clientes,         \* ClienteConsultado rows, indexed by id (never deleted)
    consultas,        \* ConsultaCliente rows (a set of records with a pk)
    threads,          \* the launched processar_consulta_completa threads
    servico,          \* the answers the enrichment service gives in this behaviour
    historico,        \* per run: what its first completed execution left
    envios,           \* EnvioHSMMatrix rows, indexed by id (1..Len)
    individuais,      \* EnvioHSMIndividual rows (a set of records)
    threads_hsm,      \* the launched processar_envio_hsm_background threads
    requisicoes,      \* the POSTs iniciar_processamento answered, with the answers
    template_sql,     \* a TemplateSQL row, its VariavelTemplate rows, a substitution
    ultima_fatura     \* per (code, credential): invoice of the last successful lookup

vars == <<execucoes, resultados_sql, clientes, consultas, threads,
          servico, historico, envios, individuais, threads_hsm, requisicoes,
          template_sql, ultima_fatura>>

\* What no step of the query pipeline changes.
fora_da_consulta ==
    <<servico, historico, envios, individuais, threads_hsm, requisicoes,
      template_sql, ultima_fatura>>

\* What no step of the messaging pipeline changes.
fora_do_envio ==
    <<execucoes, resultados_sql, clientes, consultas, threads, servico, historico,
      requisicoes, template_sql, ultima_fatura>>

---------------------------------------------------------------------------
(* Bounds of the model *)

MaxExecucoes == 2
MaxThreads == 2
MaxThreadsSeq == 3
MaxThreadsRep == 2
MaxCredenciais == 2
MaxCodigo == 2
MaxLinhas == 2
MaxLinhasLonga == 11
MaxItens == 5
MaxEnvios == 2
MaxThreadsHSM == 1
MaxPedidos == 2
MaxDesvios == 2
MaxPecas == 3
MaxPecasSinc == 2
MaxThreadsCorrida == 3
MaxAtivas == 2

(* Program constants *)

FlushACada == 10
FlushEnvioACada == 5
SemCredencial == 0
SemCliente == 0
SemTemplate == 0

Credenciais == 1..MaxCredenciais
Codigos == 1..MaxCodigo

\* The client codes the enrichment service knows.
CodigosServico == 1..(IF MaxCodigo > MaxItens THEN MaxCodigo ELSE MaxItens)

STATUS_CHOICES == {"pendente", "executando", "concluida", "cancelada", "erro"}

StatusFinais == {"concluida", "erro", "cancelada"}

---------------------------------------------------------------------------
(* Inputs: source rows and enrichment answers *)

\* The SQL results a run can have: up to MaxLinhas rows, one per invoice
\* (row k carries invoice id k), client codes free to repeat; the first row
\* is client 1 (any other result is a renaming of one of these).
ListasSQL ==
    UNION {{[k \in 1..n |-> [codigo_cliente |-> cs[k], id_fatura |-> k]] :
              cs \in {f \in [1..n -> Codigos] : n = 0 \/ f[1] = 1}} : n \in 0..MaxLinhas}

Faturas == 1..MaxLinhasLonga

SemResposta == [nulo |-> TRUE, faturas |-> {}]

\* What consultar_cliente_financeiro can return for a row: None, a payload
\* without the wanted invoice, or a payload holding it.
RespostasAPI(linha) ==
    {SemResposta,
     [nulo |-> FALSE, faturas |-> {}],
     [nulo |-> FALSE, faturas |-> {linha.id_fatura}]}

obter_fatura_por_id(dados, id_fatura) ==
    IF dados.nulo \/ id_fatura \notin dados.faturas THEN 0 ELSE id_fatura

---------------------------------------------------------------------------
(* HubsoftAPI *)

\* Answers of the token endpoint: a token, a body without access_token, a
\* network or HTTP error.
RespostasPOST == {"ok", "sem_access_token", "erro"}

\* Answers of the financial endpoint that carry no payload: status 401,
\* another network or HTTP error, a body that is not JSON.
ErrosGET == {"401", "erro", "invalido"}

\* The values of the invoice fields kept on the client row.  "None" is
\* None, "s:..." a text, "d:..." a decimal.
ValoresTexto == {"None", "s:", "s: ", "s:x"}

ValoresDecimal == {"None", "d:0", "d:10"}

CamposCheios == [valor_fatura |-> "d:10", pix |-> "s:x"]

SemCampos == [valor_fatura |-> "None", pix |-> "None"]

\* What requests.post and response.json() of the messaging endpoint do: a
\* JSON body, an empty JSON body, a body that is not JSON, or an exception.
RespostasMatrix ==
    {"dados", "vazio", "JSONDecodeError", "Timeout", "HTTPError",
     "ConnectionError", "Exception"}

RespostasSimples == {"dados", "Timeout"}

\* A service is the token answers it gives, per client code the errors it
\* answers with, the invoices its payload may hold and those it may lack,
\* per invoice the values of its fields, and the answers of the messaging
\* endpoint.

\* The service with a working token endpoint and valid tokens: a lookup
\* fails on the network, or answers with or without the wanted invoice.
ServicoSaudavel ==
    [ post |-> {"ok"},
      erros |-> [c \in CodigosServico |-> {"erro"}],
      com |-> [c \in CodigosServico |-> Faturas],
      sem |-> [c \in CodigosServico |-> Faturas],
      campos |-> [f \in Faturas |-> CamposCheios],
      matrix |-> RespostasSimples ]

\* The service that may also refuse the token and answer 401.
ServicoQualquer ==
    [ post |-> RespostasPOST,
      erros |-> [c \in CodigosServico |-> ErrosGET],
      com |-> [c \in CodigosServico |-> Faturas],
      sem |-> [c \in CodigosServico |-> Faturas],
      campos |-> [f \in Faturas |-> CamposCheios],
      matrix |-> RespostasSimples ]

\* The services that answer every lookup of a client in one way: an error,
\* or a payload with a fixed set of invoices.
ServicosFixos ==
    { [ post |-> {"ok"},
        erros |-> [c \in CodigosServico |->
                    IF c \in Codigos /\ f[c] # {0} THEN {} ELSE {"erro"}],
        com |-> [c \in CodigosServico |->
                    IF c \in Codigos /\ f[c] # {0} THEN f[c] ELSE {}],
        sem |-> [c \in CodigosServico |->
                    IF c \in Codigos /\ f[c] # {0} THEN Faturas \ f[c] ELSE {}],
        campos |-> [k \in Faturas |-> CamposCheios],
        matrix |-> RespostasSimples ] :
      f \in [Codigos -> {{0}} \cup SUBSET (1..MaxLinhas)] }

\* The answers the service can give to the GET of a row.
RespostasGET(linha) ==
    servico.erros[linha.codigo_cliente]
      \cup (IF linha.id_fatura \in servico.com[linha.codigo_cliente]
            THEN {"com_fatura"} ELSE {})
      \cup (IF linha.id_fatura \in servico.sem[linha.codigo_cliente]
            THEN {"sem_fatura"} ELSE {})

\* Mutant: a token is fetched before every lookup.
ensure_token_Mut(token) == TRUE

\* _ensure_token: does the lookup fetch a token?
ensure_token(token) == ~token

\* consultar_cliente_financeiro with the answers post and get of the service:
\* the cached token after the call, the requests made with their answers,
\* the value returned (the payload is kept down to the wanted invoice).
consultar_cliente_financeiro(token, post, get, id_fatura) ==
    LET busca == ensure_token(token)
        pedidos == IF busca THEN <<(<<"post", post>>)>> ELSE <<>>
    IN
    IF busca /\ post # "ok"
      THEN [token |-> FALSE, http |-> pedidos, dados |-> SemResposta]
      ELSE [ token |-> get # "401",
             http |-> Append(pedidos, <<"get", get>>),
             dados |-> IF get = "com_fatura"
                         THEN [nulo |-> FALSE, faturas |-> {id_fatura}]
                       ELSE IF get = "sem_fatura"
                         THEN [nulo |-> FALSE, faturas |-> {}]
                       ELSE SemResposta ]

---------------------------------------------------------------------------
(* The run row *)

\* The default of ConsultaExecucao.valores_variaveis.
SemValores == <<>>

NovaExecucao(cred) ==
    [ status |-> "pendente",
      credencial_banco |-> cred,
      total_registros_sql |-> 0,
      total_consultados_api |-> 0,
      total_erros |-> 0,
      log_execucao |-> <<>>,
      data_fim |-> FALSE,
      valores_variaveis |-> SemValores ]

\* Mutant: the status is not changed.
atualizar_status_Mut(e, status, log) == e

\* ConsultaExecucao.atualizar_status on an in-memory row (the save is the
\* caller's assignment to execucoes).
atualizar_status(e, status, log) ==
    [e EXCEPT !.status = status,
              !.log_execucao = IF log # <<>> THEN log ELSE @,
              !.data_fim = IF status \in {"concluida", "erro"} THEN TRUE ELSE @]

\* The in-memory log buffer after i items: the duplicates warning, if any,
\* and one line per item started so far.
TemDuplicatas(linhas) ==
    Cardinality({linhas[k].codigo_cliente : k \in DOMAIN linhas}) # Len(linhas)

log_buffer(linhas, i) ==
    (IF TemDuplicatas(linhas) THEN <<(<<"aviso", 0>>)>> ELSE <<>>)
      \o [k \in 1..i |-> <<"item", k>>]

---------------------------------------------------------------------------
(* Threads *)

NovaThread(r) ==
    [ execucao_id |-> r,
      pc |-> "carregar",
      execucao |-> NovaExecucao(SemCredencial),
      i |-> 0,
      total_processados |-> 0,
      total_erros |-> 0,
      cliente_obj |-> SemCliente,
      consulta_pk |-> <<0, 0>>,
      dados_cliente |-> SemResposta,
      error_msg |-> "",
      token |-> FALSE,               \* HubsoftAPI._access_token is set
      http |-> <<>>,                 \* the last lookup's requests and answers
      conn |-> "None",               \* the connection of executar_consulta_sql
      viu_cancelada |-> FALSE,       \* history: the status check read 'cancelada'
      cancelada_no_laco |-> FALSE ]  \* history: a cancel was accepted mid-loop

---------------------------------------------------------------------------
(* TemplateSQL: texts are tuples of characters *)

Letras == {"a", "A", "b"}

Digitos == {"1"}

Espacos == {" "}

\* The code point of a character, for the order of sorted().
Codigo(c) ==
    CASE c = " " -> 32 [] c = "-" -> 45 [] c = "1" -> 49 [] c = "A" -> 65
      [] c = "a" -> 97 [] c = "b" -> 98 [] c = "{" -> 123 [] c = "}" -> 125

\* re.IGNORECASE on a literal character.
Minuscula(c) == IF c = "A" THEN "a" ELSE c

RECURSIVE FimCorrida(_, _, _)
\* The index of the last character of the longest run of characters of a
\* class that starts at i (i - 1 for the empty run).
FimCorrida(texto, i, classe) ==
    IF i <= Len(texto) /\ texto[i] \in classe
      THEN FimCorrida(texto, i + 1, classe) ELSE i - 1

\* The literal is in the text at i.
TemEm(texto, i, literal) ==
    /\ i + Len(literal) - 1 <= Len(texto)
    /\ \A k \in DOMAIN literal : Minuscula(texto[i + k - 1]) = Minuscula(literal[k])

\* The group of \{\{\s*([a-zA-Z_]resto*)\s*\}\} matched at i, with the \s*
\* only if comEspacos; the empty tuple when there is no match at i.
CasaVariavel(texto, i, comEspacos, resto) ==
    IF ~TemEm(texto, i, <<"{", "{">>) THEN <<>>
    ELSE LET n0 == IF comEspacos THEN FimCorrida(texto, i + 2, Espacos) + 1 ELSE i + 2
             n1 == IF n0 <= Len(texto) /\ texto[n0] \in Letras
                     THEN FimCorrida(texto, n0 + 1, resto) ELSE n0 - 1
             f0 == IF comEspacos THEN FimCorrida(texto, n1 + 1, Espacos) + 1 ELSE n1 + 1
         IN IF n1 >= n0 /\ TemEm(texto, f0, <<"}", "}">>)
              THEN SubSeq(texto, n0, n1) ELSE <<>>

\* re.findall of one pattern, as a set.
findall(texto, comEspacos, resto) ==
    {CasaVariavel(texto, i, comEspacos, resto) : i \in 1..Len(texto)} \ {<<>>}

RECURSIVE Menor(_, _)
\* The order of Python strings.
Menor(x, y) ==
    IF y = <<>> THEN FALSE
    ELSE IF x = <<>> THEN TRUE
    ELSE IF Codigo(x[1]) # Codigo(y[1]) THEN Codigo(x[1]) < Codigo(y[1])
    ELSE Menor(Tail(x), Tail(y))

RECURSIVE sorted(_)
sorted(nomes) ==
    IF nomes = {} THEN <<>>
    ELSE LET primeiro == CHOOSE x \in nomes : \A y \in nomes \ {x} : Menor(x, y)
         IN <<primeiro>> \o sorted(nomes \ {primeiro})

\* TemplateSQL.extrair_variaveis_do_sql
extrair_variaveis_do_sql(consulta_sql) ==
    IF consulta_sql = <<>> THEN <<>>
    ELSE sorted(findall(consulta_sql, FALSE, Letras \cup Digitos)
                  \cup findall(consulta_sql, TRUE, Letras \cup Digitos)
                  \cup findall(consulta_sql, FALSE, Letras \cup Digitos \cup {"-"}))

\* The index of the last character of the match of \{\{\s*nome\s*\}\} at i,
\* with the \s* only if comEspacos; 0 when there is no match at i.
FimCasa(texto, i, nome, comEspacos) ==
    IF ~TemEm(texto, i, <<"{", "{">>) THEN 0
    ELSE LET n0 == IF comEspacos THEN FimCorrida(texto, i + 2, Espacos) + 1 ELSE i + 2
             f0 == IF comEspacos
                     THEN FimCorrida(texto, n0 + Len(nome), Espacos) + 1
                     ELSE n0 + Len(nome)
         IN IF TemEm(texto, n0, nome) /\ TemEm(texto, f0, <<"}", "}">>)
              THEN f0 + 1 ELSE 0

RECURSIVE re_sub(_, _, _, _, _)
\* re.sub of the pattern of a name from index i on: the matches are replaced
\* from left to right, what is replaced is not scanned again.
re_sub(texto, i, nome, comEspacos, valor) ==
    IF i > Len(texto) THEN <<>>
    ELSE LET fim == FimCasa(texto, i, nome, comEspacos) IN
         IF fim > 0 THEN valor \o re_sub(texto, fim + 1, nome, comEspacos, valor)
         ELSE <<texto[i]>> \o re_sub(texto, i + 1, nome, comEspacos, valor)

RECURSIVE substituir_variaveis(_, _)
\* TemplateSQL.substituir_variaveis for the pairs (name, value) of the
\* dictionary in its order: the exact pattern, then the one with spaces.
substituir_variaveis(consulta_sql, valores) ==
    IF valores = <<>> THEN consulta_sql
    ELSE LET nome == valores[1][1]
             valor == valores[1][2]
             exato == re_sub(consulta_sql, 1, nome, FALSE, valor)
         IN substituir_variaveis(re_sub(exato, 1, nome, TRUE, valor), Tail(valores))

\* A TemplateSQL row with its VariavelTemplate rows; valores and
\* sql_processado are the argument and the result of the last call of
\* substituir_variaveis, sincronizado whether the last operation on the row
\* was sincronizar_variaveis_com_sql.
NovoTemplateSQL(consulta_sql) ==
    [ consulta_sql |-> consulta_sql,
      variaveis |-> {},
      valores |-> <<>>,
      substituido |-> FALSE,
      sql_processado |-> <<>>,
      sincronizado |-> FALSE ]

RECURSIVE Juntar(_)
\* The text made of pieces.
Juntar(pecas) ==
    IF pecas = <<>> THEN <<>> ELSE Head(pecas) \o Juntar(Tail(pecas))

\* The pieces the SQL texts of the model are made of: whole placeholders,
\* braces and characters.
Placeholders ==
    {<<"{", "{", "a", "}", "}">>, <<"{", "{", "b", "}", "}">>,
     <<"{", "{", "A", "}", "}">>, <<"{", "{", " ", "a", " ", "}", "}">>,
     <<"{", "{", "a", "-", "b", "}", "}">>}

Pecas ==
    Placeholders \cup
      {<<"{", "{">>, <<"}", "}">>, <<"a">>, <<"A">>, <<"b">>, <<" ">>, <<"-">>, <<"1">>}

Textos(conjunto, n) ==
    {Juntar(pecas) : pecas \in UNION {[1..k -> conjunto] : k \in 0..n}}

\* The values a variable is given.
ValoresSQL == {<<"1">>, <<"b">>}

\* The dictionaries with a value for each name of a list, in any order.
Dicionarios(nomes) ==
    LET n == Len(nomes) IN
    {[k \in 1..n |-> <<nomes[ordem[k]], valor[k]>>] :
        ordem \in {f \in [1..n -> 1..n] : \A i, j \in 1..n : f[i] = f[j] => i = j},
        valor \in [1..n -> ValoresSQL]}

\* A call of substituir_variaveis on the row (executar_consulta_sql).
SubstituirVariaveis(valores) ==
    template_sql' =
        [template_sql EXCEPT
           !.valores = valores,
           !.substituido = TRUE,
           !.sql_processado = substituir_variaveis(template_sql.consulta_sql, valores),
           !.sincronizado = FALSE]

\* The names found in the SQL text.
VariaveisSQL(consulta_sql) ==
    LET nomes == extrair_variaveis_do_sql(consulta_sql)
    IN {nomes[k] : k \in DOMAIN nomes}

\* Mutant: the variables that came back to the SQL are not reactivated.
sincronizar_variaveis_com_sql_Mut(consulta_sql, variaveis) ==
    LET variaveis_sql == VariaveisSQL(consulta_sql)
        variaveis_existentes == {v.nome : v \in variaveis}
    IN
    {[v EXCEPT !.ativo = IF v.nome \in variaveis_sql THEN @ ELSE FALSE] :
        v \in variaveis}
      \cup {[nome |-> n, ativo |-> TRUE, obrigatorio |-> TRUE] :
              n \in variaveis_sql \ variaveis_existentes}

\* TemplateSQL.sincronizar_variaveis_com_sql: the VariavelTemplate rows of
\* the template after the call.
sincronizar_variaveis_com_sql(consulta_sql, variaveis) ==
    LET variaveis_sql == VariaveisSQL(consulta_sql)
        variaveis_existentes == {v.nome : v \in variaveis}
    IN
    {[v EXCEPT !.ativo = (v.nome \in variaveis_sql)] : v \in variaveis}
      \cup {[nome |-> n, ativo |-> TRUE, obrigatorio |-> TRUE] :
              n \in variaveis_sql \ variaveis_existentes}

\* The admin action sincronizar_variaveis_acao on the template.
SincronizarVariaveis ==
    template_sql' =
        [template_sql EXCEPT
           !.variaveis = sincronizar_variaveis_com_sql(template_sql.consulta_sql, @),
           !.sincronizado = TRUE]

\* The admin form of the template saved with another SQL text.
EditarSQL(texto) ==
    template_sql' = [template_sql EXCEPT !.consulta_sql = texto,
                                         !.sincronizado = FALSE]

\* The names the admin gives to variables by hand.
NomesAdmin == {<<"a">>, <<"1">>}

\* The admin inline of the variables saved: a row is added, or the flags of
\* the row of that name changed.
SalvarVariavel(nome, ativo, obrig) ==
    template_sql' =
        [template_sql EXCEPT
           !.variaveis = {v \in @ : v.nome # nome}
                           \cup {[nome |-> nome, ativo |-> ativo, obrigatorio |-> obrig]},
           !.sincronizado = FALSE]

SemLinhas ==
    /\ execucoes = <<>>
    /\ resultados_sql = <<>>
    /\ clientes = <<>>
    /\ consultas = {}
    /\ threads = <<>>
    /\ historico = <<>>
    /\ envios = <<>>
    /\ individuais = {}
    /\ threads_hsm = <<>>
    /\ requisicoes = <<>>
    /\ ultima_fatura = [par \in Codigos \X Credenciais |-> 0]

SemTabelas ==
    /\ SemLinhas
    /\ template_sql = NovoTemplateSQL(<<>>)

Init ==
    /\ SemTabelas
    /\ servico = ServicoSaudavel

---------------------------------------------------------------------------
(* Request handlers *)

\* iniciar_processamento with valid input: create the run, launch its thread.
iniciar_processamento(cred, linhas) ==
    /\ execucoes' = Append(execucoes, NovaExecucao(cred))
    /\ resultados_sql' = Append(resultados_sql, linhas)
    /\ threads' = Append(threads, NovaThread(Len(execucoes) + 1))
    /\ UNCHANGED <<clientes, consultas>>

\* The templates of the database and the active variables of each, as
\* get_variaveis_configuradas returns them: "ausente" is a key the
\* configuration does not have.
VariaveisConfig ==
    [a |-> [obrigatorio |-> "True", valor_padrao |-> "pa"],
     b |-> [obrigatorio |-> "False", valor_padrao |-> "pb"],
     c |-> [obrigatorio |-> "False", valor_padrao |-> "ausente"],
     d |-> [obrigatorio |-> "ausente", valor_padrao |-> ""]]

Templates == {1}

\* The POSTs a form can make: "None" is a text field the form lacks,
\* SemTemplate and SemCredencial an id it lacks, template 2 does not exist.
TodosPOST ==
    [ titulo : {"None", "t"},
      template_sql : {SemTemplate, 1, 2},
      credencial_hubsoft : {SemCredencial, 1},
      credencial_banco : {SemCredencial, 1},
      var : [a : {"None", "", "v"}, b : {"None", "v"},
             c : {"", "v"}, d : {"", "v"}] ]

\* The number of fields of a POST that have no value or a wrong one.
Desvios(post) ==
    (IF post.titulo = "t" THEN 0 ELSE 1)
      + (IF post.template_sql = 1 THEN 0 ELSE 1)
      + (IF post.credencial_hubsoft = 1 THEN 0 ELSE 1)
      + (IF post.credencial_banco = 1 THEN 0 ELSE 1)
      + Cardinality({v \in DOMAIN post.var : post.var[v] # "v"})

\* The POSTs the handler receives in the model.
PedidosPOST == {post \in TodosPOST : Desvios(post) <= MaxDesvios}

\* The truth value of a form field.
Preenchido(valor) == valor \notin {"None", ""}

\* config.get('obrigatorio', True)
obrigatorio_Mut(config) == FALSE

obrigatorio(config) == config.obrigatorio # "False"

\* config.get('valor_padrao', '')
valor_padrao(config) ==
    IF config.valor_padrao = "ausente" THEN "" ELSE config.valor_padrao

\* The loop of iniciar_processamento over the variables: the names it
\* refuses the request for, and the values it stores otherwise.
VariaveisFaltando(post) ==
    {v \in DOMAIN VariaveisConfig :
        obrigatorio(VariaveisConfig[v]) /\ ~Preenchido(post.var[v])}

valores_variaveis(post) ==
    [v \in DOMAIN VariaveisConfig |->
        IF ~Preenchido(post.var[v]) /\ ~obrigatorio(VariaveisConfig[v])
          THEN valor_padrao(VariaveisConfig[v])
          ELSE post.var[v]]

\* iniciar_processamento: the answer to a POST, and for a valid one the run
\* and its thread.
iniciar_processamento_post(post, linhas) ==
    LET todos == /\ Preenchido(post.titulo)
                 /\ post.template_sql # SemTemplate
                 /\ post.credencial_hubsoft # SemCredencial
                 /\ post.credencial_banco # SemCredencial
        status == IF ~todos THEN "error"
                  ELSE IF post.template_sql \notin Templates THEN "error"
                  ELSE IF VariaveisFaltando(post) # {} THEN "error"
                  ELSE "success"
    IN
    /\ requisicoes' = Append(requisicoes, [post |-> post, status |-> status])
    /\ IF status = "success"
         THEN /\ execucoes' = Append(execucoes,
                    [NovaExecucao(post.credencial_banco)
                       EXCEPT !.valores_variaveis = valores_variaveis(post)])
              /\ resultados_sql' = Append(resultados_sql, linhas)
              /\ threads' = Append(threads, NovaThread(Len(execucoes) + 1))
         ELSE UNCHANGED <<execucoes, resultados_sql, threads>>
    /\ UNCHANGED <<clientes, consultas>>

\* Mutant: the cancel is accepted in any status.
PodeCancelar_Mut(status) == TRUE

\* `if execucao.status not in ['pendente', 'executando']`: the cancel is refused.
PodeCancelar(status) == status \in {"pendente", "executando"}

\* Where a thread is between the loop's first status check and the end of
\* its last iteration.
NoLaco ==
    {"verificar", "api", "cliente_create", "cliente_save", "erro_cliente_create",
     "consulta_get", "consulta_create", "consulta_save", "flush"}

cancelar_processamento(r) ==
    /\ PodeCancelar(execucoes[r].status)
    /\ execucoes' = [execucoes EXCEPT ![r] =
           [@ EXCEPT !.status = "cancelada",
                     !.data_fim = TRUE,
                     !.log_execucao = Append(@, <<"cancelado", 0>>)]]
    /\ threads' = [t \in DOMAIN threads |->
           IF threads[t].execucao_id = r /\ threads[t].pc \in NoLaco
             THEN [threads[t] EXCEPT !.cancelada_no_laco = TRUE]
             ELSE threads[t]]
    /\ UNCHANGED <<resultados_sql, clientes, consultas>>

\* Mutant: the restart is accepted in any status.
PodeReiniciar_Mut(status) == TRUE

PodeReiniciar(status) == status \in {"concluida", "erro", "cancelada"}

\* Mutant: the delete is not filtered by run.
ConsultasAposDelete_Mut(r) == {}

\* ConsultaCliente.objects.filter(execucao=execucao).delete()
ConsultasAposDelete(r) == {c \in consultas : c.execucao # r}

ExecucaoReiniciada(e) ==
    [e EXCEPT !.status = "pendente",
              !.data_fim = FALSE,
              !.total_registros_sql = 0,
              !.total_consultados_api = 0,
              !.total_erros = 0,
              !.log_execucao = <<>>]

reiniciar_processamento(r) ==
    /\ PodeReiniciar(execucoes[r].status)
    /\ consultas' = ConsultasAposDelete(r)
    /\ execucoes' = [execucoes EXCEPT ![r] = ExecucaoReiniciada(@)]
    /\ threads' = Append(threads, NovaThread(r))
    /\ UNCHANGED <<resultados_sql, clientes>>

\* The thread has returned: its locals are gone.
Terminada(th) ==
    [NovaThread(th.execucao_id) EXCEPT !.pc = "fim",
                                       !.viu_cancelada = th.viu_cancelada,
                                       !.cancelada_no_laco = th.cancelada_no_laco]

---------------------------------------------------------------------------
(* processar_consulta_completa: one step per database access *)

Linha(th) == resultados_sql[th.execucao_id][th.i]

\* execucao = ConsultaExecucao.objects.get(id=execucao_id)
Carregar(t) ==
    LET th == threads[t] IN
    /\ th.pc = "carregar"
    /\ threads' = [threads EXCEPT ![t] =
           [th EXCEPT !.pc = "iniciar", !.execucao = execucoes[th.execucao_id]]]
    /\ UNCHANGED <<execucoes, resultados_sql, clientes, consultas>>

\* execucao.atualizar_status('executando', 'Iniciando processamento...')
Iniciar(t) ==
    LET th == threads[t]
        e == atualizar_status(th.execucao, "executando", <<(<<"iniciando", 0>>)>>)
    IN
    /\ th.pc = "iniciar"
    /\ execucoes' = [execucoes EXCEPT ![th.execucao_id] = e]
    /\ threads' = [threads EXCEPT ![t] = [th EXCEPT !.pc = "sql", !.execucao = e]]
    /\ UNCHANGED <<resultados_sql, clientes, consultas>>

\* Mutant: the empty result is not detected.
SemResultados_Mut(linhas) == FALSE

\* `if not resultados_sql`
SemResultados(linhas) == linhas = <<>>

\* The connection of a call of executar_consulta_sql that raises: none when
\* the substitution or psycopg2.connect raised, an open one when the
\* execution or the fetch raised, the except clause only logging.
ConexaoAoLancar == {"None", "aberta"}

\* executar_consulta_sql raises, or returns the rows and the count is saved.
ExecutarSQL(t) ==
    LET th == threads[t]
        linhas == resultados_sql[th.execucao_id]
        e == [th.execucao EXCEPT !.total_registros_sql = Len(linhas)]
    IN
    /\ th.pc = "sql"
    /\ \/ /\ \E conn \in ConexaoAoLancar :
                threads' = [threads EXCEPT ![t] =
                    [th EXCEPT !.pc = "excecao", !.conn = conn]]
          /\ UNCHANGED execucoes
       \/ /\ execucoes' = [execucoes EXCEPT ![th.execucao_id] = e]
          /\ threads' = [threads EXCEPT ![t] =
                 [th EXCEPT !.execucao = e,
                            !.conn = "fechada",
                            !.pc = IF SemResultados(linhas) THEN "vazio"
                                   ELSE IF Len(linhas) = 0 THEN "finalizar"
                                   ELSE "verificar",
                            !.i = IF Len(linhas) = 0 THEN 0 ELSE 1]]
    /\ UNCHANGED <<resultados_sql, clientes, consultas>>

\* execucao.atualizar_status('erro', 'Nenhum resultado encontrado ...'); return
Vazio(t) ==
    LET th == threads[t]
        e == atualizar_status(th.execucao, "erro", <<(<<"vazio", 0>>)>>)
    IN
    /\ th.pc = "vazio"
    /\ execucoes' = [execucoes EXCEPT ![th.execucao_id] = e]
    /\ threads' = [threads EXCEPT ![t] = Terminada(th)]
    /\ UNCHANGED <<resultados_sql, clientes, consultas>>

\* Mutant: the cancellation check never stops the loop.
ExecucaoCancelada_Mut(e) == FALSE

\* `if execucao.status == 'cancelada': return`
ExecucaoCancelada(e) == e.status = "cancelada"

\* execucao.refresh_from_db() and the cancellation check at the loop's top
Verificar(t) ==
    LET th == threads[t]
        e == execucoes[th.execucao_id]
    IN
    /\ th.pc = "verificar"
    /\ threads' = [threads EXCEPT ![t] =
           LET visto == [th EXCEPT !.execucao = e,
                                   !.viu_cancelada = (e.status = "cancelada")]
           IN IF ExecucaoCancelada(e) THEN Terminada(visto)
              ELSE [visto EXCEPT !.pc = "api"]]
    /\ UNCHANGED <<execucoes, resultados_sql, clientes, consultas>>

---------------------------------------------------------------------------
(* processar_cliente_api *)

ClientesCom(codigo, cred) ==
    {c \in DOMAIN clientes : /\ clientes[c].codigo_cliente = codigo
                             /\ clientes[c].credencial_banco = cred}

ClientesComCodigo(codigo) ==
    {c \in DOMAIN clientes : clientes[c].codigo_cliente = codigo}

ConsultasDe(r, cli) ==
    {c \in consultas : c.execucao = r /\ c.cliente = cli}

\* Mutant: no unique constraint on ClienteConsultado.
ViolaUnicidadeCliente_Mut(codigo, cred) == FALSE

\* unique_together = ['codigo_cliente', 'credencial_banco']; a NULL
\* credential never collides (SQL unique constraints ignore NULLs).
ViolaUnicidadeCliente(codigo, cred) ==
    cred # SemCredencial /\ ClientesCom(codigo, cred) # {}

\* unique_together = ['execucao', 'cliente']
ViolaUnicidadeConsulta(r, cli) == ConsultasDe(r, cli) # {}

\* The item is over: the orchestrator counts it, sleeps, and goes to the
\* periodic flush, the next item or the end of the loop.
FimItem(th, sucesso) ==
    LET n == Len(resultados_sql[th.execucao_id])
        flush == th.i % FlushACada = 0
    IN
    [th EXCEPT !.total_processados = IF sucesso THEN @ + 1 ELSE @,
               !.total_erros = IF sucesso THEN @ ELSE @ + 1,
               !.cliente_obj = SemCliente,
               !.consulta_pk = <<0, 0>>,
               !.dados_cliente = SemResposta,
               !.error_msg = "",
               !.pc = IF flush THEN "flush"
                      ELSE IF th.i = n THEN "finalizar" ELSE "verificar",
               !.i = IF flush \/ th.i = n THEN @ ELSE @ + 1]

\* Mutant: no except branch, the failure leaves processar_cliente_api.
RegistrarErro_Mut(th, msg) == [th EXCEPT !.pc = "excecao"]

\* The except branch up to its first database access: with no cliente_obj
\* the client is looked up by code alone (no credential in the lookup).
RegistrarErro(th, msg) ==
    LET porCodigo == ClientesComCodigo(Linha(th).codigo_cliente)
        erro == [th EXCEPT !.error_msg = msg, !.dados_cliente = SemResposta]
    IN
    IF th.cliente_obj # SemCliente
      THEN [erro EXCEPT !.pc = "consulta_get"]
    ELSE IF porCodigo = {}
      THEN [erro EXCEPT !.pc = "erro_cliente_create"]
    ELSE IF Cardinality(porCodigo) = 1
      THEN [erro EXCEPT !.pc = "consulta_get",
                        !.cliente_obj = CHOOSE c \in porCodigo : TRUE]
    ELSE FimItem(th, FALSE)   \* MultipleObjectsReturned, logged and swallowed

\* The lookup, the invoice search and the first half of the client's
\* get_or_create (the get).
ConsultarAPI(t) ==
    LET th == threads[t] IN
    /\ th.pc = "api"
    /\ \E post \in servico.post, get \in RespostasGET(Linha(th)) :
         LET r == consultar_cliente_financeiro(th.token, post, get,
                                               Linha(th).id_fatura)
             dados == r.dados
             th1 == [th EXCEPT !.token = r.token, !.http = r.http]
             fatura == obter_fatura_por_id(dados, Linha(th).id_fatura)
             achados == ClientesCom(Linha(th).codigo_cliente,
                                    th.execucao.credencial_banco)
         IN
         threads' = [threads EXCEPT ![t] =
             IF dados.nulo THEN RegistrarErro(th1, "falha_api")
             ELSE IF fatura = 0 THEN RegistrarErro(th1, "fatura_nao_encontrada")
             ELSE IF achados = {}
               THEN [th1 EXCEPT !.dados_cliente = dados, !.pc = "cliente_create"]
             ELSE IF Cardinality(achados) = 1
               THEN [th1 EXCEPT !.dados_cliente = dados, !.pc = "cliente_save",
                                !.cliente_obj = CHOOSE c \in achados : TRUE]
             ELSE RegistrarErro(th1, "excecao")]
    /\ UNCHANGED <<execucoes, resultados_sql, clientes, consultas>>

NovoCliente(linha, cred) ==
    [ codigo_cliente |-> linha.codigo_cliente,
      credencial_banco |-> cred,
      id_fatura |-> linha.id_fatura,
      fatura_salva |-> 0 ]

\* Second half of the client's get_or_create: the INSERT, or on
\* IntegrityError the row that won the race.
ClienteCreate(t) ==
    LET th == threads[t]
        cred == th.execucao.credencial_banco
        codigo == Linha(th).codigo_cliente
    IN
    /\ th.pc = "cliente_create"
    /\ IF ViolaUnicidadeCliente(codigo, cred)
         THEN /\ UNCHANGED clientes
              /\ threads' = [threads EXCEPT ![t] =
                     [th EXCEPT !.pc = "cliente_save",
                                !.cliente_obj = CHOOSE c \in ClientesCom(codigo, cred) : TRUE]]
         ELSE /\ clientes' = Append(clientes, NovoCliente(Linha(th), cred))
              /\ threads' = [threads EXCEPT ![t] =
                     [th EXCEPT !.pc = "cliente_save",
                                !.cliente_obj = Len(clientes) + 1]]
    /\ UNCHANGED <<execucoes, resultados_sql, consultas>>

\* The invoice snapshot is overwritten and the client saved.
ClienteSave(t) ==
    LET th == threads[t] IN
    /\ th.pc = "cliente_save"
    /\ clientes' = [clientes EXCEPT ![th.cliente_obj].fatura_salva =
                        obter_fatura_por_id(th.dados_cliente, Linha(th).id_fatura)]
    /\ threads' = [threads EXCEPT ![t] = [th EXCEPT !.pc = "consulta_get"]]
    /\ UNCHANGED <<execucoes, resultados_sql, consultas>>

\* Except branch: the client is created without a credential.
ErroClienteCreate(t) ==
    LET th == threads[t] IN
    /\ th.pc = "erro_cliente_create"
    /\ clientes' = Append(clientes, NovoCliente(Linha(th), SemCredencial))
    /\ threads' = [threads EXCEPT ![t] =
           [th EXCEPT !.pc = "consulta_get", !.cliente_obj = Len(clientes) + 1]]
    /\ UNCHANGED <<execucoes, resultados_sql, consultas>>

\* The ConsultaCliente row this pass writes (success or error branch).
NovaConsulta(pk, th) ==
    [ id |-> pk,
      execucao |-> th.execucao_id,
      cliente |-> th.cliente_obj,
      dados_originais_sql |-> Linha(th),
      dados_api_response |-> th.dados_cliente,
      sucesso_api |-> (th.error_msg = ""),
      erro_api |-> th.error_msg ]

\* First half of the result's get_or_create (the get).
ConsultaGet(t) ==
    LET th == threads[t]
        achadas == ConsultasDe(th.execucao_id, th.cliente_obj)
    IN
    /\ th.pc = "consulta_get"
    /\ threads' = [threads EXCEPT ![t] =
           IF achadas = {} THEN [th EXCEPT !.pc = "consulta_create"]
           ELSE IF Cardinality(achadas) = 1
             THEN [th EXCEPT !.pc = "consulta_save",
                             !.consulta_pk = (CHOOSE c \in achadas : TRUE).id]
           ELSE FimItem(th, FALSE)]
    /\ UNCHANGED <<execucoes, resultados_sql, clientes, consultas>>

\* Second half: the INSERT, or on IntegrityError the existing row.
ConsultaCreate(t) ==
    LET th == threads[t] IN
    /\ th.pc = "consulta_create"
    /\ IF ViolaUnicidadeConsulta(th.execucao_id, th.cliente_obj)
         THEN /\ UNCHANGED consultas
              /\ threads' = [threads EXCEPT ![t] =
                     [th EXCEPT !.pc = "consulta_save",
                                !.consulta_pk =
                                    (CHOOSE c \in ConsultasDe(th.execucao_id, th.cliente_obj) : TRUE).id]]
         ELSE /\ consultas' = consultas \cup {NovaConsulta(<<t, th.i>>, th)}
              /\ threads' = [threads EXCEPT ![t] = FimItem(th, th.error_msg = "")]
    /\ UNCHANGED <<execucoes, resultados_sql, clientes>>

\* `if not created`: the fields are overwritten and the row saved by pk
\* (Model.save: UPDATE, or INSERT when the row is gone).
ConsultaSave(t) ==
    LET th == threads[t]
        antigas == {c \in consultas : c.id = th.consulta_pk}
        nova == NovaConsulta(th.consulta_pk, th)
    IN
    /\ th.pc = "consulta_save"
    /\ IF antigas # {} \/ ~ViolaUnicidadeConsulta(th.execucao_id, th.cliente_obj)
         THEN /\ consultas' = (consultas \ antigas) \cup {nova}
              /\ threads' = [threads EXCEPT ![t] = FimItem(th, th.error_msg = "")]
         ELSE /\ UNCHANGED consultas   \* IntegrityError on the INSERT
              /\ threads' = [threads EXCEPT ![t] =
                     IF th.error_msg = "" THEN RegistrarErro(th, "excecao")
                     ELSE FimItem(th, FALSE)]
    /\ UNCHANGED <<execucoes, resultados_sql, clientes>>

---------------------------------------------------------------------------
(* processar_consulta_completa: flush, completion, except branch *)

ComProgresso(th) ==
    [th.execucao EXCEPT
        !.total_consultados_api = th.total_processados,
        !.total_erros = th.total_erros,
        !.log_execucao = log_buffer(resultados_sql[th.execucao_id], th.i)]

\* `if i % 10 == 0`: counters and log are saved.
Flush(t) ==
    LET th == threads[t]
        e == ComProgresso(th)
        n == Len(resultados_sql[th.execucao_id])
    IN
    /\ th.pc = "flush"
    /\ execucoes' = [execucoes EXCEPT ![th.execucao_id] = e]
    /\ threads' = [threads EXCEPT ![t] =
           [th EXCEPT !.execucao = e,
                      !.pc = IF th.i = n THEN "finalizar" ELSE "verificar",
                      !.i = IF th.i = n THEN @ ELSE @ + 1]]
    /\ UNCHANGED <<resultados_sql, clientes, consultas>>

\* Final counters, then atualizar_status('concluida', summary).
Finalizar(t) ==
    LET th == threads[t]
        e == atualizar_status(ComProgresso(th), "concluida", <<(<<"concluido", 0>>)>>)
    IN
    /\ th.pc = "finalizar"
    /\ execucoes' = [execucoes EXCEPT ![th.execucao_id] = e]
    /\ threads' = [threads EXCEPT ![t] = Terminada(th)]
    /\ UNCHANGED <<resultados_sql, clientes, consultas>>

\* except Exception: the run is reloaded and set to 'erro'.
Excecao(t) ==
    LET th == threads[t]
        e == atualizar_status(execucoes[th.execucao_id], "erro", <<(<<"erro", 0>>)>>)
    IN
    /\ th.pc = "excecao"
    /\ execucoes' = [execucoes EXCEPT ![th.execucao_id] = e]
    /\ threads' = [threads EXCEPT ![t] = Terminada(th)]
    /\ UNCHANGED <<resultados_sql, clientes, consultas>>

processar_cliente_api(t) ==
    \/ ConsultarAPI(t)
    \/ ClienteCreate(t)
    \/ ClienteSave(t)
    \/ ErroClienteCreate(t)
    \/ ConsultaGet(t)
    \/ ConsultaCreate(t)
    \/ ConsultaSave(t)

processar_consulta_completa(t) ==
    \/ Carregar(t)
    \/ Iniciar(t)
    \/ ExecutarSQL(t)
    \/ Vazio(t)
    \/ Verificar(t)
    \/ processar_cliente_api(t)
    \/ Flush(t)
    \/ Finalizar(t)
    \/ Excecao(t)

---------------------------------------------------------------------------
(* Messaging: templates and variables *)

\* The names a variable mapping can give to its fields (the keys of
\* variaveis_utilizadas).
CamposHSM == {"codigo_cliente", "valor_fatura", "pix_copia_cola"}

\* serializar_valor_para_json: None and every falsy value become the empty
\* text, anything else its text.
serializar_valor_para_json(valor) ==
    IF valor = "None" THEN ""
    ELSE IF valor \in {"s:", "d:0"} THEN ""
    ELSE IF valor = "s: " THEN " "
    ELSE IF valor = "s:x" THEN "x"
    ELSE "10"

\* The client fields read at views.py:996-1006.
dados_cliente_hsm(c) ==
    LET campos == IF clientes[c].fatura_salva = 0
                    THEN SemCampos
                    ELSE servico.campos[clientes[c].fatura_salva]
    IN
    [ codigo_cliente |-> "s:x",
      valor_fatura |-> campos.valor_fatura,
      pix |-> campos.pix ]

mapear_campos_cliente_para_hsm(cliente_data) ==
    [ codigo_cliente |-> serializar_valor_para_json(cliente_data.codigo_cliente),
      valor_fatura |-> serializar_valor_para_json(cliente_data.valor_fatura),
      pix_copia_cola |-> serializar_valor_para_json(cliente_data.pix) ]

\* str.strip on the texts of the model.
Strip(texto) == IF texto = " " THEN "" ELSE texto

\* verificar_variaveis_vazias; a mapping is the set of fields it names.
verificar_variaveis_vazias(configuracao_variaveis, dados_cliente) ==
    \E campo_cliente \in configuracao_variaveis :
        LET valor == IF campo_cliente \in DOMAIN dados_cliente
                       THEN dados_cliente[campo_cliente] ELSE ""
        IN valor = "" \/ Strip(valor) = ""

\* The test of views.py:1046-1050 on the in-memory row and the item.
usar_contingencia(envio, variaveis) ==
    /\ envio.configuracao_variaveis # {}
    /\ verificar_variaveis_vazias(envio.configuracao_variaveis, variaveis)
    /\ envio.hsm_template_contingencia
    /\ envio.configuracao_variaveis_contingencia # {}

\* What iniciar_envio_hsm reads from the form: the primary mapping, whether
\* a fallback template was chosen and, only then, the fallback mapping.
ConfigsHSM ==
    { [principal |-> p, template_contingencia |-> tc[1], contingencia |-> tc[2]] :
        p \in SUBSET CamposHSM,
        tc \in {<<FALSE, {}>>, <<TRUE, {}>>, <<TRUE, {"codigo_cliente"}>>} }

ConfigSimples ==
    [principal |-> {"codigo_cliente"}, template_contingencia |-> FALSE,
     contingencia |-> {}]

---------------------------------------------------------------------------
(* Messaging: rows, handlers, orchestrator *)

STATUS_ENVIO_CHOICES ==
    {"pendente", "enviando", "concluido", "cancelado", "erro", "pausado"}

NovoEnvio(r, cfg) ==
    [ consulta_execucao |-> r,
      status_envio |-> "pendente",
      configuracao_variaveis |-> cfg.principal,
      hsm_template_contingencia |-> cfg.template_contingencia,
      configuracao_variaveis_contingencia |-> cfg.contingencia,
      total_clientes |-> 0,
      total_enviados |-> 0,
      total_erros |-> 0,
      total_pendentes |-> 0,
      log_envio |-> <<>> ]

\* EnvioHSMMatrix.atualizar_status on an in-memory row: the log is appended.
envio_atualizar_status(e, status) ==
    [e EXCEPT !.status_envio = status, !.log_envio = Append(@, status)]

NovaThreadHSM(e) ==
    [ envio_id |-> e,
      pc |-> "carregar",
      envio |-> NovoEnvio(0, ConfigSimples),
      itens |-> <<>>,                \* the clients of the rows iterated
      k |-> 0,
      total_clientes |-> 0,
      total_enviados |-> 0,
      total_erros |-> 0,
      resposta |-> "None",           \* history: the last answer of the endpoint
      cancelado_no_laco |-> FALSE ]  \* history: a cancel was accepted mid-loop

\* The thread has returned: its locals are gone.
TerminadaHSM(th) ==
    [NovaThreadHSM(th.envio_id) EXCEPT !.pc = "fim",
                                       !.cancelado_no_laco = th.cancelado_no_laco]

\* The successful results of a run.
ConsultasSucesso(r) == {c \in consultas : c.execucao = r /\ c.sucesso_api}

\* iniciar_envio_hsm with every required field present.
iniciar_envio_hsm(r, cfg) ==
    /\ envios' = Append(envios, NovoEnvio(r, cfg))
    /\ threads_hsm' = Append(threads_hsm, NovaThreadHSM(Len(envios) + 1))
    /\ UNCHANGED individuais
    /\ UNCHANGED fora_do_envio

\* obter_ultimo_envio_hsm: the latest EnvioHSMMatrix of the run, 0 if none.
obter_ultimo_envio_hsm(r) ==
    LET anteriores == {e \in DOMAIN envios : envios[e].consulta_execucao = r}
    IN IF anteriores = {} THEN 0
       ELSE CHOOSE e \in anteriores : \A d \in anteriores : d <= e

\* The checks of enviar_hsm_configuracao_atual.
PodeEnviarAtual(r) ==
    /\ execucoes[r].status = "concluida"
    /\ obter_ultimo_envio_hsm(r) # 0
    /\ ConsultasSucesso(r) # {}

enviar_hsm_configuracao_atual(r) ==
    /\ PodeEnviarAtual(r)
    /\ LET anterior == envios[obter_ultimo_envio_hsm(r)] IN
       envios' = Append(envios,
           NovoEnvio(r, [principal |-> anterior.configuracao_variaveis,
                         template_contingencia |-> anterior.hsm_template_contingencia,
                         contingencia |-> anterior.configuracao_variaveis_contingencia]))
    /\ threads_hsm' = Append(threads_hsm, NovaThreadHSM(Len(envios) + 1))
    /\ UNCHANGED individuais
    /\ UNCHANGED fora_do_envio

\* Where a messaging thread is between the loop's first status check and
\* the end of its last iteration.
NoLacoHSM == {"verificar", "enviando", "enviar", "flush"}

cancelar_envio_hsm(e) ==
    /\ envios[e].status_envio \in {"pendente", "enviando"}
    /\ envios' = [envios EXCEPT ![e] = envio_atualizar_status(@, "cancelado")]
    /\ individuais' =
          {IF i.envio_matrix = e /\ i.status = "pendente"
             THEN [i EXCEPT !.status = "cancelado"] ELSE i : i \in individuais}
    /\ threads_hsm' = [h \in DOMAIN threads_hsm |->
           IF threads_hsm[h].envio_id = e /\ threads_hsm[h].pc \in NoLacoHSM
             THEN [threads_hsm[h] EXCEPT !.cancelado_no_laco = TRUE]
             ELSE threads_hsm[h]]
    /\ UNCHANGED fora_do_envio

\* envio_matrix = EnvioHSMMatrix.objects.get(id=envio_matrix_id)
HCarregar(h) ==
    LET th == threads_hsm[h] IN
    /\ th.pc = "carregar"
    /\ threads_hsm' = [threads_hsm EXCEPT ![h] =
           [th EXCEPT !.pc = "iniciar", !.envio = envios[th.envio_id]]]
    /\ UNCHANGED <<envios, individuais>>

\* envio_matrix.atualizar_status('enviando', ...)
HIniciar(h) ==
    LET th == threads_hsm[h]
        e == envio_atualizar_status(th.envio, "enviando")
    IN
    /\ th.pc = "iniciar"
    /\ envios' = [envios EXCEPT ![th.envio_id] = e]
    /\ threads_hsm' = [threads_hsm EXCEPT ![h] =
           [th EXCEPT !.pc = "contar", !.envio = e]]
    /\ UNCHANGED individuais

\* consultas_sucesso.count() and the save of total_clientes.
HContar(h) ==
    LET th == threads_hsm[h]
        n == Cardinality(ConsultasSucesso(th.envio.consulta_execucao))
        e == [th.envio EXCEPT !.total_clientes = n]
    IN
    /\ th.pc = "contar"
    /\ envios' = [envios EXCEPT ![th.envio_id] = e]
    /\ threads_hsm' = [threads_hsm EXCEPT ![h] =
           [th EXCEPT !.pc = IF n = 0 THEN "sem_clientes" ELSE "criar",
                      !.envio = e, !.total_clientes = n]]
    /\ UNCHANGED individuais

\* total_clientes == 0: atualizar_status('erro', ...) and return.
HSemClientes(h) ==
    LET th == threads_hsm[h] IN
    /\ th.pc = "sem_clientes"
    /\ envios' = [envios EXCEPT ![th.envio_id] =
           envio_atualizar_status(th.envio, "erro")]
    /\ threads_hsm' = [threads_hsm EXCEPT ![h] = TerminadaHSM(th)]
    /\ UNCHANGED individuais

RECURSIVE Ordenar(_)
\* The elements of a set of numbers in increasing order.
Ordenar(S) ==
    IF S = {} THEN <<>>
    ELSE LET menor == CHOOSE x \in S : \A y \in S : x <= y
         IN <<menor>> \o Ordenar(S \ {menor})

\* The value of erro_detalhado of a row without error.
SemErro == <<>>

NovoIndividual(e, c) ==
    [ envio_matrix |-> e,
      cliente |-> c,
      status |-> "pendente",
      template_usado |-> "principal",
      variaveis_utilizadas |-> mapear_campos_cliente_para_hsm(dados_cliente_hsm(c)),
      resposta_api |-> "None",
      erro_detalhado |-> SemErro,
      tentativas |-> 0 ]

\* The loop over consultas_sucesso (evaluated again), the bulk_create and
\* the query the send loop iterates.
HCriar(h) ==
    LET th == threads_hsm[h]
        alvo == {c.cliente : c \in ConsultasSucesso(th.envio.consulta_execucao)}
    IN
    /\ th.pc = "criar"
    /\ individuais' = individuais \cup {NovoIndividual(th.envio_id, c) : c \in alvo}
    /\ threads_hsm' = [threads_hsm EXCEPT ![h] =
           [th EXCEPT !.pc = IF alvo = {} THEN "finalizar" ELSE "verificar",
                      !.itens = Ordenar(alvo), !.k = 1]]
    /\ UNCHANGED envios

\* envio_matrix.refresh_from_db() and the cancellation test; after the break
\* nothing is saved, the in-memory status being 'cancelado'.
HVerificar(h) ==
    LET th == threads_hsm[h]
        e == envios[th.envio_id]
    IN
    /\ th.pc = "verificar"
    /\ threads_hsm' = [threads_hsm EXCEPT ![h] =
           IF e.status_envio = "cancelado"
             THEN TerminadaHSM(th)
             ELSE [th EXCEPT !.pc = "enviando", !.envio = e]]
    /\ UNCHANGED <<envios, individuais>>

Individual(e, c) ==
    CHOOSE i \in individuais : i.envio_matrix = e /\ i.cliente = c

\* envio_individual.status = 'enviando'; envio_individual.save()
HEnviando(h) ==
    LET th == threads_hsm[h]
        antes == Individual(th.envio_id, th.itens[th.k])
    IN
    /\ th.pc = "enviando"
    /\ individuais' = (individuais \ {antes})
                        \cup {[antes EXCEPT !.status = "enviando"]}
    /\ threads_hsm' = [threads_hsm EXCEPT ![h] = [th EXCEPT !.pc = "enviar"]]
    /\ UNCHANGED envios

\* After an item: the periodic save, the next item or the end of the loop.
FimItemHSM(th) ==
    IF (th.total_enviados + th.total_erros) % FlushEnvioACada = 0
      THEN [th EXCEPT !.pc = "flush"]
    ELSE IF th.k = Len(th.itens)
      THEN [th EXCEPT !.pc = "finalizar"]
      ELSE [th EXCEPT !.pc = "verificar", !.k = @ + 1]

\* The outcomes of enviar_hsm_matrix_django for an answer of the endpoint:
\* the dictionary it returns, or the exception it raises.  The handler of
\* RequestException reads the local `response`, which is unbound when
\* requests.post raised before returning: the read raises UnboundLocalError
\* out of the function.  A body that is not JSON raises a RequestException
\* or a ValueError, depending on the version of requests.
enviar_hsm_matrix_django(resposta) ==
    CASE resposta = "dados" ->
           {[lancou |-> "None", success |-> TRUE, error |-> SemErro, data |-> "dados"]}
      [] resposta = "vazio" ->
           {[lancou |-> "None", success |-> TRUE, error |-> SemErro, data |-> "vazio"]}
      [] resposta = "Timeout" ->
           {[lancou |-> "None", success |-> FALSE,
             error |-> <<"Timeout na requisicao", "Timeout">>, data |-> "None"]}
      [] resposta = "HTTPError" ->
           {[lancou |-> "None", success |-> FALSE,
             error |-> <<"Erro de rede", "HTTPError">>, data |-> "texto"]}
      [] resposta = "JSONDecodeError" ->
           {[lancou |-> "None", success |-> FALSE,
             error |-> <<"Erro de rede", "JSONDecodeError">>, data |-> "texto"],
            [lancou |-> "None", success |-> FALSE,
             error |-> <<"Erro inesperado", "JSONDecodeError">>, data |-> "None"]}
      [] resposta = "ConnectionError" ->
           {[lancou |-> "UnboundLocalError", success |-> FALSE,
             error |-> SemErro, data |-> "None"]}
      [] resposta = "Exception" ->
           {[lancou |-> "None", success |-> FALSE,
             error |-> <<"Erro inesperado", "Exception">>, data |-> "None"]}

\* The truth value of a response body: None and an empty body are false.
TemResposta(resposta_api) == resposta_api \notin {"None", "vazio"}

\* EnvioHSMIndividual.marcar_enviado
marcar_enviado(i, resposta_api) ==
    [i EXCEPT !.status = "enviado",
              !.resposta_api = IF TemResposta(resposta_api) THEN resposta_api ELSE @]

\* EnvioHSMIndividual.marcar_erro
marcar_erro(i, erro, resposta_api) ==
    [i EXCEPT !.status = "erro",
              !.erro_detalhado = erro,
              !.tentativas = @ + 1,
              !.resposta_api = IF TemResposta(resposta_api) THEN resposta_api ELSE @]

\* The template choice with the save of template_usado, the call of
\* enviar_hsm_matrix_django and marcar_enviado or marcar_erro; an exception
\* of the call is recorded by the handler of the loop body.
HEnviar(h) ==
    LET th == threads_hsm[h]
        antes == Individual(th.envio_id, th.itens[th.k])
        template == IF usar_contingencia(th.envio, antes.variaveis_utilizadas)
                      THEN "contingencia" ELSE "principal"
        item == [antes EXCEPT !.template_usado = template]
    IN
    /\ th.pc = "enviar"
    /\ \E resposta \in servico.matrix :
       \E resultado \in enviar_hsm_matrix_django(resposta) :
         /\ individuais' = (individuais \ {antes}) \cup
               { IF resultado.lancou # "None"
                   THEN marcar_erro(item, <<"Erro inesperado", resultado.lancou>>, "None")
                 ELSE IF resultado.success
                   THEN marcar_enviado(item, resultado.data)
                   ELSE marcar_erro(item, resultado.error, resultado.data) }
         /\ threads_hsm' = [threads_hsm EXCEPT ![h] =
               FimItemHSM(
                 IF resultado.lancou = "None" /\ resultado.success
                   THEN [th EXCEPT !.total_enviados = @ + 1, !.resposta = resposta]
                   ELSE [th EXCEPT !.total_erros = @ + 1, !.resposta = resposta])]
    /\ UNCHANGED envios

ComTotais(th) ==
    [th.envio EXCEPT !.total_enviados = th.total_enviados,
                     !.total_erros = th.total_erros,
                     !.total_pendentes =
                        th.total_clientes - th.total_enviados - th.total_erros]

\* The save of the progress every FlushEnvioACada items.
HFlush(h) ==
    LET th == threads_hsm[h]
        e == ComTotais(th)
    IN
    /\ th.pc = "flush"
    /\ envios' = [envios EXCEPT ![th.envio_id] = e]
    /\ threads_hsm' = [threads_hsm EXCEPT ![h] =
           IF th.k = Len(th.itens)
             THEN [th EXCEPT !.pc = "finalizar", !.envio = e]
             ELSE [th EXCEPT !.pc = "verificar", !.k = @ + 1, !.envio = e]]
    /\ UNCHANGED individuais

NaoCancelado(e) == e.status_envio # "cancelado"

\* After the loop: atualizar_status('concluido', ...) unless the in-memory
\* row says 'cancelado'.
HFinalizar(h) ==
    LET th == threads_hsm[h]
        e == ComTotais(th)
    IN
    /\ th.pc = "finalizar"
    /\ IF NaoCancelado(e)
         THEN envios' = [envios EXCEPT ![th.envio_id] =
                            envio_atualizar_status(e, "concluido")]
         ELSE UNCHANGED envios
    /\ threads_hsm' = [threads_hsm EXCEPT ![h] = TerminadaHSM(th)]
    /\ UNCHANGED individuais

processar_envio_hsm_background(h) ==
    /\ \/ HCarregar(h)
       \/ HIniciar(h)
       \/ HContar(h)
       \/ HSemClientes(h)
       \/ HCriar(h)
       \/ HVerificar(h)
       \/ HEnviando(h)
       \/ HEnviar(h)
       \/ HFlush(h)
       \/ HFinalizar(h)
    /\ UNCHANGED fora_do_envio

---------------------------------------------------------------------------
(* Specifications *)

RECURSIVE SomaLinhas(_)
SomaLinhas(n) ==
    IF n = 0 THEN 0 ELSE Len(resultados_sql[n]) + SomaLinhas(n - 1)

\* The runs a bounded exploration creates: at most MaxExecucoes, with at
\* most MaxLinhas source rows between them, credentials numbered in the
\* order runs first use them.
NovaExecucaoCabe(cred, linhas) ==
    /\ Len(execucoes) < MaxExecucoes
    /\ cred <= Len(execucoes) + 1
    /\ SomaLinhas(Len(resultados_sql)) + Len(linhas) <= MaxLinhas

Ativas == {t \in DOMAIN threads : threads[t].pc # "fim"}

\* Spec: at most MaxThreads launches, threads free to run concurrently.
Next ==
    \/ \E cred \in Credenciais, linhas \in ListasSQL :
           /\ NovaExecucaoCabe(cred, linhas)
           /\ Len(threads) < MaxThreads
           /\ iniciar_processamento(cred, linhas)
           /\ UNCHANGED fora_da_consulta
    \/ \E r \in DOMAIN execucoes :
           /\ cancelar_processamento(r)
           /\ UNCHANGED fora_da_consulta
    \/ \E r \in DOMAIN execucoes :
           /\ Len(threads) < MaxThreads
           /\ reiniciar_processamento(r)
           /\ UNCHANGED fora_da_consulta
    \/ \E t \in DOMAIN threads :
           /\ processar_consulta_completa(t)
           /\ UNCHANGED fora_da_consulta

Spec == Init /\ [][Next]_vars

\* SpecSeq: at most MaxThreadsSeq launches, each after the previous thread
\* has returned (requests arrive while no other run is being processed).
NextSeq ==
    \/ \E cred \in Credenciais, linhas \in ListasSQL :
           /\ NovaExecucaoCabe(cred, linhas)
           /\ Len(threads) < MaxThreadsSeq /\ Ativas = {}
           /\ iniciar_processamento(cred, linhas)
           /\ UNCHANGED fora_da_consulta
    \/ \E r \in DOMAIN execucoes :
           /\ cancelar_processamento(r)
           /\ UNCHANGED fora_da_consulta
    \/ \E r \in DOMAIN execucoes :
           /\ Len(threads) < MaxThreadsSeq /\ Ativas = {}
           /\ reiniciar_processamento(r)
           /\ UNCHANGED fora_da_consulta
    \/ \E t \in DOMAIN threads :
           /\ processar_consulta_completa(t)
           /\ UNCHANGED fora_da_consulta

SpecSeq == Init /\ [][NextSeq]_vars

\* SpecAPI: the requests of SpecSeq against a service that may refuse the
\* token and answer 401.
InitAPI ==
    /\ SemTabelas
    /\ servico = ServicoQualquer

SpecAPI == InitAPI /\ [][NextSeq]_vars

\* What a run holds when it is completed: its counters and its results.
Foto(exs, cons, r) ==
    [ total_registros_sql |-> exs[r].total_registros_sql,
      total_consultados_api |-> exs[r].total_consultados_api,
      total_erros |-> exs[r].total_erros,
      resultados |-> {<<c.cliente, c.sucesso_api>> : c \in {d \in cons : d.execucao = r}} ]

SemFoto == <<>>

\* SpecRep: a service that answers each client in one way; at most
\* MaxThreadsRep launches, one after the other; historico keeps what each
\* run held the first time it became concluida.
InitRep ==
    /\ SemTabelas
    /\ servico \in ServicosFixos

NextRep ==
    \/ \E cred \in Credenciais, linhas \in ListasSQL :
           /\ NovaExecucaoCabe(cred, linhas)
           /\ Len(threads) < MaxThreadsRep /\ Ativas = {}
           /\ iniciar_processamento(cred, linhas)
           /\ historico' = Append(historico, SemFoto)
           /\ UNCHANGED <<servico, envios, individuais, threads_hsm, requisicoes,
                        template_sql, ultima_fatura>>
    \/ \E r \in DOMAIN execucoes :
           /\ cancelar_processamento(r)
           /\ UNCHANGED fora_da_consulta
    \/ \E r \in DOMAIN execucoes :
           /\ Len(threads) < MaxThreadsRep /\ Ativas = {}
           /\ reiniciar_processamento(r)
           /\ UNCHANGED fora_da_consulta
    \/ \E t \in DOMAIN threads :
           /\ processar_consulta_completa(t)
           /\ historico' =
                [r \in DOMAIN historico |->
                    IF /\ historico[r] = SemFoto
                       /\ execucoes[r].status # "concluida"
                       /\ execucoes'[r].status = "concluida"
                      THEN Foto(execucoes', consultas', r)
                      ELSE historico[r]]
           /\ UNCHANGED <<servico, envios, individuais, threads_hsm, requisicoes,
                        template_sql, ultima_fatura>>

SpecRep == InitRep /\ [][NextRep]_vars

\* SpecLonga: a single run over MaxLinhasLonga rows, more than the flush
\* period, cancelled at any point and restarted after its thread returned.
ListaLonga ==
    [k \in 1..MaxLinhasLonga |-> [codigo_cliente |-> 1, id_fatura |-> k]]

NextLonga ==
    \/ /\ execucoes = <<>>
       /\ iniciar_processamento(1, ListaLonga)
       /\ UNCHANGED fora_da_consulta
    \/ \E r \in DOMAIN execucoes :
           /\ cancelar_processamento(r)
           /\ UNCHANGED fora_da_consulta
    \/ \E r \in DOMAIN execucoes :
           /\ Len(threads) < MaxThreads /\ Ativas = {}
           /\ reiniciar_processamento(r)
           /\ UNCHANGED fora_da_consulta
    \/ \E t \in DOMAIN threads :
           /\ processar_consulta_completa(t)
           /\ UNCHANGED fora_da_consulta

SpecLonga == Init /\ [][NextLonga]_vars

\* SpecCorrida: a single run of one row, cancelled and restarted at any
\* point, at most MaxThreadsCorrida launches, at most MaxAtivas threads
\* running at a time, free to interleave.
NextCorrida ==
    \/ /\ execucoes = <<>>
       /\ iniciar_processamento(1, <<[codigo_cliente |-> 1, id_fatura |-> 1]>>)
       /\ UNCHANGED fora_da_consulta
    \/ \E r \in DOMAIN execucoes :
           /\ cancelar_processamento(r)
           /\ UNCHANGED fora_da_consulta
    \/ \E r \in DOMAIN execucoes :
           /\ Len(threads) < MaxThreadsCorrida
           /\ Cardinality(Ativas) < MaxAtivas
           /\ reiniciar_processamento(r)
           /\ UNCHANGED fora_da_consulta
    \/ \E t \in DOMAIN threads :
           /\ processar_consulta_completa(t)
           /\ UNCHANGED fora_da_consulta

SpecCorrida == Init /\ [][NextCorrida]_vars

AtivasHSM == {h \in DOMAIN threads_hsm : threads_hsm[h].pc # "fim"}

\* SpecHSM: at most MaxThreadsHSM query threads, cancelled at any point and
\* never restarted, and at most MaxEnvios messaging runs with the mapping
\* ConfigSimples, each launched after the previous messaging thread returned.
NextHSM ==
    \/ \E cred \in Credenciais, linhas \in ListasSQL :
           /\ NovaExecucaoCabe(cred, linhas)
           /\ Len(threads) < MaxThreadsHSM /\ Ativas = {}
           /\ iniciar_processamento(cred, linhas)
           /\ UNCHANGED fora_da_consulta
    \/ \E r \in DOMAIN execucoes :
           /\ cancelar_processamento(r)
           /\ UNCHANGED fora_da_consulta
    \/ \E t \in DOMAIN threads :
           /\ processar_consulta_completa(t)
           /\ UNCHANGED fora_da_consulta
    \/ \E r \in DOMAIN execucoes :
           /\ Len(envios) < MaxEnvios /\ AtivasHSM = {}
           /\ iniciar_envio_hsm(r, ConfigSimples)
    \/ \E r \in DOMAIN execucoes :
           /\ Len(envios) < MaxEnvios /\ AtivasHSM = {}
           /\ enviar_hsm_configuracao_atual(r)
    \/ \E e \in DOMAIN envios : cancelar_envio_hsm(e)
    \/ \E h \in DOMAIN threads_hsm : processar_envio_hsm_background(h)

SpecHSM == Init /\ [][NextHSM]_vars

\* SpecHSMJusta: SpecHSM with every launched thread scheduled again and
\* again until it returns (each of its steps being a call that returns or
\* times out).
SpecHSMJusta ==
    /\ SpecHSM
    /\ \A t \in 1..MaxThreadsHSM :
          WF_vars(/\ t \in DOMAIN threads
                  /\ processar_consulta_completa(t)
                  /\ UNCHANGED fora_da_consulta)
    /\ \A h \in 1..MaxEnvios :
          WF_vars(h \in DOMAIN threads_hsm /\ processar_envio_hsm_background(h))

\* SpecPedido: at most MaxPedidos POSTs to iniciar_processamento, valid or
\* not, each after the thread of the previous one returned.
NextPedido ==
    \/ \E post \in PedidosPOST, linhas \in ListasSQL :
           /\ Len(requisicoes) < MaxPedidos /\ Ativas = {}
           /\ SomaLinhas(Len(resultados_sql)) + Len(linhas) <= MaxLinhas
           /\ iniciar_processamento_post(post, linhas)
           /\ UNCHANGED <<servico, historico, envios, individuais, threads_hsm,
                        template_sql, ultima_fatura>>
    \/ \E t \in DOMAIN threads :
           /\ processar_consulta_completa(t)
           /\ UNCHANGED fora_da_consulta

SpecPedido == Init /\ [][NextPedido]_vars

\* What no operation on a template changes.
fora_do_template ==
    <<execucoes, resultados_sql, clientes, consultas, threads, servico, historico,
      envios, individuais, threads_hsm, requisicoes, ultima_fatura>>

\* SpecSQL: a template with any text of at most MaxPecas pieces, and the
\* substitutions that give a value to every name extracted from it.
InitSQL ==
    /\ SemLinhas
    /\ servico = ServicoSaudavel
    /\ \E texto \in Textos(Pecas, MaxPecas) : template_sql = NovoTemplateSQL(texto)

NextSQL ==
    \E valores \in Dicionarios(extrair_variaveis_do_sql(template_sql.consulta_sql)) :
        /\ SubstituirVariaveis(valores)
        /\ UNCHANGED fora_do_template

SpecSQL == InitSQL /\ [][NextSQL]_vars

\* SpecSinc: a template whose SQL text (at most MaxPecasSinc pieces) and
\* variables are edited in the admin and synchronised, in any order.
NextSinc ==
    \/ \E texto \in Textos(Placeholders \cup {<<"{", "{">>}, MaxPecasSinc) :
           EditarSQL(texto) /\ UNCHANGED fora_do_template
    \/ \E nome \in NomesAdmin, ativo \in BOOLEAN, obrig \in BOOLEAN :
           SalvarVariavel(nome, ativo, obrig) /\ UNCHANGED fora_do_template
    \/ SincronizarVariaveis /\ UNCHANGED fora_do_template

SpecSinc == Init /\ [][NextSinc]_vars

\* The step of thread t is a successful lookup: the service answered with
\* the wanted invoice.
ConsultouComSucesso(t) ==
    /\ threads[t].pc = "api"
    /\ threads'[t].pc \in {"cliente_create", "cliente_save"}

\* SpecFatura: at most MaxExecucoes runs of one row each, the client and the
\* invoice of the row free, their threads free to run concurrently, no run
\* cancelled or restarted; ultima_fatura follows the successful lookups.
NextFatura ==
    \/ \E cred \in Credenciais, c \in Codigos, f \in 1..MaxLinhas :
           /\ Len(execucoes) < MaxExecucoes
           /\ iniciar_processamento(cred, <<[codigo_cliente |-> c, id_fatura |-> f]>>)
           /\ UNCHANGED fora_da_consulta
    \/ \E t \in DOMAIN threads :
           /\ processar_consulta_completa(t)
           /\ ultima_fatura' =
                  IF ConsultouComSucesso(t)
                    THEN [ultima_fatura EXCEPT
                            ![<<Linha(threads[t]).codigo_cliente,
                                threads[t].execucao.credencial_banco>>] =
                                Linha(threads[t]).id_fatura]
                    ELSE ultima_fatura
           /\ UNCHANGED <<servico, historico, envios, individuais, threads_hsm,
                        requisicoes, template_sql>>

SpecFatura == Init /\ [][NextFatura]_vars

\* SpecMatrix: one run of any rows and one messaging run for it, launched
\* and cancelled at any point, against a messaging endpoint that answers in
\* any of RespostasMatrix.
InitMatrix ==
    /\ SemTabelas
    /\ servico = [ServicoSaudavel EXCEPT !.matrix = RespostasMatrix]

NextMatrix ==
    \/ \E cred \in Credenciais, linhas \in ListasSQL :
           /\ execucoes = <<>>
           /\ iniciar_processamento(cred, linhas)
           /\ UNCHANGED fora_da_consulta
    \/ \E t \in DOMAIN threads :
           /\ processar_consulta_completa(t)
           /\ UNCHANGED fora_da_consulta
    \/ \E r \in DOMAIN execucoes :
           /\ envios = <<>>
           /\ iniciar_envio_hsm(r, ConfigSimples)
    \/ \E e \in DOMAIN envios : cancelar_envio_hsm(e)
    \/ \E h \in DOMAIN threads_hsm : processar_envio_hsm_background(h)

SpecMatrix == InitMatrix /\ [][NextMatrix]_vars

\* SpecEnvio: one run over MaxItens rows, one client each, against a service
\* that answers every lookup with the invoice; the fields of invoice 1 are
\* any of AmostrasDeCampos.  One messaging run, with any mapping, is launched
\* after the query thread returned, and cancelled at any point.
ListaEnvio ==
    [k \in 1..MaxItens |-> [codigo_cliente |-> k, id_fatura |-> k]]

AmostrasDeCampos ==
    {[valor_fatura |-> "d:10", pix |-> p] : p \in ValoresTexto}
      \cup {[valor_fatura |-> v, pix |-> "s:x"] : v \in ValoresDecimal}

InitEnvio ==
    /\ SemTabelas
    /\ \E amostra \in AmostrasDeCampos :
         servico = [ post |-> {"ok"},
                     erros |-> [c \in CodigosServico |-> {}],
                     com |-> [c \in CodigosServico |-> Faturas],
                     sem |-> [c \in CodigosServico |-> {}],
                     campos |-> [f \in Faturas |->
                                   IF f = 1 THEN amostra ELSE CamposCheios],
                     matrix |-> RespostasSimples ]

NextEnvio ==
    \/ /\ execucoes = <<>>
       /\ iniciar_processamento(1, ListaEnvio)
       /\ UNCHANGED fora_da_consulta
    \/ \E t \in DOMAIN threads :
           /\ processar_consulta_completa(t)
           /\ UNCHANGED fora_da_consulta
    \/ \E r \in DOMAIN execucoes, cfg \in ConfigsHSM :
           /\ envios = <<>> /\ Ativas = {}
           /\ iniciar_envio_hsm(r, cfg)
    \/ \E e \in DOMAIN envios : cancelar_envio_hsm(e)
    \/ \E h \in DOMAIN threads_hsm : processar_envio_hsm_background(h)

SpecEnvio == InitEnvio /\ [][NextEnvio]_vars

---------------------------------------------------------------------------
(* Claims *)

ThreadsDe(r) == {t \in DOMAIN threads : threads[t].execucao_id = r}

\* The step is reiniciar_processamento(r): r goes back to 'pendente' and a
\* new thread for r is launched.
PassoReinicio(r) ==
    /\ Len(threads') = Len(threads) + 1
    /\ threads'[Len(threads')].execucao_id = r
    /\ execucoes'[r].status = "pendente"

\* C1: once a run's persisted status is concluida, cancelada or erro, no
\* step other than reiniciar_processamento changes it.
C1_FinalSoMudaNoReinicio ==
    [][\A r \in DOMAIN execucoes :
          (execucoes[r].status \in StatusFinais
             /\ execucoes'[r].status # execucoes[r].status)
          => PassoReinicio(r)]_vars

\* C2: if a cancel was accepted while the orchestrator was inside the item
\* loop, then once that orchestrator has stopped the persisted status is
\* cancelada (stated for a run that was never restarted).
C2_CanceladaAposParar ==
    \A t \in DOMAIN threads :
        (/\ threads[t].pc = "fim"
         /\ threads[t].cancelada_no_laco
         /\ ThreadsDe(threads[t].execucao_id) = {t})
        => execucoes[threads[t].execucao_id].status = "cancelada"

\* C3: once a thread's status check has read cancelada, the thread takes no
\* further step (no processar_cliente_api call, no write to the run row);
\* the step that reads it changes no table, so the results written before
\* stay as they were.
C3_NadaAposVerCancelada ==
    [][\A t \in DOMAIN threads :
          /\ threads[t].viu_cancelada => threads'[t] = threads[t]
          /\ (~threads[t].viu_cancelada /\ threads'[t].viu_cancelada)
               => /\ threads'[t].pc = "fim"
                  /\ UNCHANGED <<execucoes, clientes, consultas>>]_vars

\* C3 witness: a thread stopped on an observed cancellation after it had
\* written a result for its run.
C3_Testemunha ==
    \E t \in DOMAIN threads :
        /\ threads[t].viu_cancelada
        /\ threads[t].pc = "fim"
        /\ \E c \in consultas : c.execucao = threads[t].execucao_id

\* C4: at most one thread is inside the item loop of any one run.
C4_UmaThreadPorExecucao ==
    \A r \in DOMAIN execucoes :
        Cardinality({t \in ThreadsDe(r) : threads[t].pc \in NoLaco}) <= 1

\* No two ConsultaCliente rows share (execucao, cliente).
C5_UmaConsultaPorPar ==
    \A a, b \in consultas :
        (a.execucao = b.execucao /\ a.cliente = b.cliente) => a = b

\* The save of a pass whose pair has a row replaces that row by the
\* pass's data.
C5_Sobrescreve ==
    \A t \in DOMAIN threads :
        LET th == threads[t]
            antes == ConsultasDe(th.execucao_id, th.cliente_obj)
        IN
        (th.pc = "consulta_save" /\ threads'[t].pc # th.pc /\ antes # {})
        => \E c \in consultas' :
                /\ consultas' = (consultas \ antes) \cup {c}
                /\ {d.id : d \in antes} = {c.id}
                /\ c.execucao = th.execucao_id /\ c.cliente = th.cliente_obj
                /\ c.dados_originais_sql = Linha(th)
                /\ c.dados_api_response = th.dados_cliente
                /\ c.sucesso_api = (th.error_msg = "")
                /\ c.erro_api = th.error_msg

\* C5: in every reachable state there is at most one ConsultaCliente per
\* (execucao, cliente); a pass over a source row whose pair already has a
\* result overwrites that result's source row, API response, success flag
\* and error message and adds no row.
C5_ConsultaUnicaESobrescrita ==
    []C5_UmaConsultaPorPar /\ [][C5_Sobrescreve]_vars

\* No two ClienteConsultado rows share (codigo_cliente, credencial_banco)
\* with a credential.
C6_UmClientePorPar ==
    \A a, b \in DOMAIN clientes :
        (/\ clientes[a].credencial_banco # SemCredencial
         /\ clientes[a].codigo_cliente = clientes[b].codigo_cliente
         /\ clientes[a].credencial_banco = clientes[b].credencial_banco)
        => a = b

\* The client save of an enrichment writes the invoice to the pair's row
\* and inserts nothing.
C6_Atualiza ==
    \A t \in DOMAIN threads :
        LET th == threads[t] IN
        (th.pc = "cliente_save" /\ threads'[t].pc # th.pc)
        => /\ Len(clientes') = Len(clientes)
           /\ clientes'[th.cliente_obj].codigo_cliente = Linha(th).codigo_cliente
           /\ clientes'[th.cliente_obj].credencial_banco = th.execucao.credencial_banco
           /\ clientes'[th.cliente_obj].fatura_salva = Linha(th).id_fatura

\* C6: in every reachable state there is at most one ClienteConsultado per
\* (codigo_cliente, credencial_banco) pair, also when runs enrich the same
\* code concurrently; repeated enrichment of a pair updates the existing
\* record and inserts no other.
C6_ClienteUnicoEAtualizado ==
    []C6_UmClientePorPar /\ [][C6_Atualiza]_vars

\* C6 witness: two threads of different runs hold the same client at once.
C6_Testemunha ==
    \E t, u \in DOMAIN threads :
        /\ threads[t].execucao_id # threads[u].execucao_id
        /\ threads[t].cliente_obj # SemCliente
        /\ threads[t].cliente_obj = threads[u].cliente_obj
        /\ threads[t].pc = "cliente_save" /\ threads[u].pc = "cliente_save"

C8_ContadoresAoConcluir ==
    \A r \in DOMAIN execucoes :
        execucoes[r].status = "concluida"
        => /\ execucoes[r].total_registros_sql = Len(resultados_sql[r])
           /\ execucoes[r].total_consultados_api + execucoes[r].total_erros
                = Len(resultados_sql[r])

\* C9: when a run over N rows with pairwise distinct codes is concluida,
\* it has exactly N results, total_consultados_api of them marked success
\* and total_erros marked failed.
C9_UmResultadoPorLinha ==
    \A r \in DOMAIN execucoes :
        (execucoes[r].status = "concluida" /\ ~TemDuplicatas(resultados_sql[r]))
        => LET cs == {c \in consultas : c.execucao = r} IN
           /\ Cardinality(cs) = Len(resultados_sql[r])
           /\ Cardinality({c \in cs : c.sucesso_api}) = execucoes[r].total_consultados_api
           /\ Cardinality({c \in cs : ~c.sucesso_api}) = execucoes[r].total_erros

\* What a restart step of run r does.
C10_Reinicio ==
    \A r \in DOMAIN execucoes :
        PassoReinicio(r)
        => /\ execucoes[r].status \in StatusFinais
           /\ \A c \in consultas' : c.execucao # r
           /\ {c \in consultas : c.execucao # r} = consultas'
           /\ execucoes'[r].status = "pendente"
           /\ execucoes'[r].total_registros_sql = 0
           /\ execucoes'[r].total_consultados_api = 0
           /\ execucoes'[r].total_erros = 0
           /\ execucoes'[r].log_execucao = <<>>
           /\ execucoes'[r].data_fim = FALSE
           /\ threads'[Len(threads')].pc = "carregar"
           /\ clientes' = clientes
           /\ \A q \in DOMAIN execucoes : q # r => execucoes'[q] = execucoes[q]

\* C10: reiniciar_processamento on a run in a final status deletes that
\* run's results, zeroes its three counters, clears its log and end time
\* and sets it to pendente before the new thread has taken a step; no
\* client and no result of another run is deleted.
C10_ReinicioLimpaSoAExecucao == [][C10_Reinicio]_vars

\* C10 witness: a run with results was just restarted while another run
\* keeps its results.
C10_Testemunha ==
    \E r \in DOMAIN execucoes :
        /\ Len(threads) > Len(execucoes)
        /\ threads[Len(threads)].execucao_id = r
        /\ threads[Len(threads)].pc = "carregar"
        /\ execucoes[r].status = "pendente"
        /\ resultados_sql[r] # <<>>
        /\ clientes # <<>>
        /\ \E c \in consultas : c.execucao # r

\* Where a thread is inside processar_cliente_api.
NoItem == NoLaco \ {"verificar", "flush"}

\* Thread t leaves processar_cliente_api in this step.
FimDoItem(t) ==
    threads[t].pc \in NoItem /\ threads'[t].pc \notin NoItem

\* What a step in which a run stays pendente or executando leaves alone.
C12_Passo ==
    \A r \in DOMAIN execucoes :
        execucoes[r].status \in {"pendente", "executando"}
        => /\ ~(/\ Len(threads') > Len(threads)
                /\ threads'[Len(threads')].execucao_id = r)
           /\ {c.id : c \in {d \in consultas : d.execucao = r}}
                \subseteq {c.id : c \in {d \in consultas' : d.execucao = r}}
           /\ (/\ \A t \in ThreadsDe(r) : threads'[t] = threads[t]
               /\ execucoes'[r].status # "cancelada")
              => execucoes'[r] = execucoes[r]

\* C12: while a run is pendente or executando no restart of it takes
\* effect: no result of the run is deleted, no thread is launched for it,
\* and its row is changed by nothing but its own threads and a cancel.
C12_ReinicioRecusado == [][C12_Passo]_vars

\* C12 witness: a running run with a result, at a moment when a thread
\* could still be launched.
C12_Testemunha ==
    \E r \in DOMAIN execucoes :
        /\ execucoes[r].status = "executando"
        /\ \E c \in consultas : c.execucao = r
        /\ Len(threads) < MaxThreads

\* What a step of a thread inside processar_cliente_api does.
C13_Passo ==
    \A t \in DOMAIN threads :
        LET th == threads[t]
            th2 == threads'[t]
        IN
        (th.pc \in NoItem /\ th2.pc # th.pc)
        => /\ th2.pc \in NoItem \cup {"verificar", "flush", "finalizar"}
           /\ execucoes' = execucoes
           /\ th2.total_processados > th.total_processados
                => (th.error_msg = "" /\ th.pc \in {"consulta_create", "consulta_save"})
           /\ FimDoItem(t)
                => /\ th2.total_processados + th2.total_erros
                        = th.total_processados + th.total_erros + 1
                   /\ th2.total_processados >= th.total_processados
                   /\ th2.total_erros >= th.total_erros
                   /\ th2.pc = "verificar" => th2.i = th.i + 1

\* C13: a failure of an item never leaves processar_cliente_api as an
\* exception and never touches the run row: the orchestrator counts one
\* error for the item and goes on with the next row (or the end of the loop).
C13_FalhaDoItemNaoPropaga == [][C13_Passo]_vars

\* C13 witness: a thread counted an error for row 1 and is about to check
\* row 2 of a run still executando.
C13_Testemunha ==
    \E t \in DOMAIN threads :
        /\ threads[t].pc = "verificar"
        /\ threads[t].i = 2
        /\ threads[t].total_erros = 1
        /\ execucoes[threads[t].execucao_id].status = "executando"

\* C14: when processar_cliente_api returns from a row that failed, a
\* ConsultaCliente of that run for a client with the row's code holds the
\* row, sucesso_api = false and the failure text.
C14_FalhaSempreRegistrada ==
    [][\A t \in DOMAIN threads :
          (FimDoItem(t) /\ threads'[t].total_erros = threads[t].total_erros + 1)
          => \E c \in consultas' :
                /\ c.execucao = threads[t].execucao_id
                /\ clientes'[c.cliente].codigo_cliente = Linha(threads[t]).codigo_cliente
                /\ c.dados_originais_sql = Linha(threads[t])
                /\ ~c.sucesso_api
                /\ c.erro_api # ""]_vars

\* Thread t makes a lookup in this step.
Consultou(t) ==
    threads[t].pc = "api" /\ threads'[t].pc # "api"

\* The token fetch of thread t's last lookup failed.
TokenFalhou(th) ==
    Len(th.http) = 1 /\ th.http[1][1] = "post"

\* C15: a thread whose lookup died at the token fetch does not go on with
\* the loop nor reach the normal end of the run.
C15_FalhaDoTokenAborta ==
    \A t \in DOMAIN threads :
        TokenFalhou(threads[t])
        => threads[t].pc \notin {"verificar", "flush", "finalizar"}

\* The lookup whose exchanges are log failed.
ConsultaFalhou(log) ==
    \E k \in DOMAIN log : log[k][2] \notin {"ok", "com_fatura", "sem_fatura"}

\* C16: a lookup that failed raises nothing, and when its item ends a
\* ConsultaCliente of the run for a client with the row's code records the
\* item as failed with the lookup-failed reason.
C16_FalhaDaConsultaRegistrada ==
    [][\A t \in DOMAIN threads :
          (FimDoItem(t) /\ ConsultaFalhou(threads'[t].http))
          => /\ threads'[t].pc # "excecao"
             /\ \E c \in consultas' :
                   /\ c.execucao = threads[t].execucao_id
                   /\ clientes'[c.cliente].codigo_cliente = Linha(threads[t]).codigo_cliente
                   /\ ~c.sucesso_api
                   /\ c.erro_api = "falha_api"]_vars

\* What a lookup step does with the token.
C17_Passo ==
    \A t \in DOMAIN threads :
        LET th == threads[t]
            th2 == threads'[t]
            posts == {k \in DOMAIN th2.http : th2.http[k][1] = "post"}
            gets == {k \in DOMAIN th2.http : th2.http[k][1] = "get"}
        IN
        /\ Consultou(t)
             => /\ posts = (IF th.token THEN {} ELSE {1})
                /\ Cardinality(gets) <= 1
                /\ gets # {} => /\ gets = {Len(th2.http)}
                                /\ posts # {} => th2.http[1][2] = "ok"
                /\ th2.token = /\ gets # {}
                               /\ th2.http[Len(th2.http)][2] # "401"
        /\ (~Consultou(t) /\ th2.pc # "fim") => th2.token = th.token

\* C17: a lookup fetches a token exactly when none is cached, and then
\* once, before its single GET; with a token cached and no 401 the token
\* stays; an answer 401 clears the token and is not retried; nothing else
\* changes the token.
C17_CicloDoToken == [][C17_Passo]_vars

\* C17 witness: the lookup of row 2 found no token cached (the first lookup
\* lost or never got one), fetched one and did its GET.
C17_Testemunha ==
    \E t \in DOMAIN threads :
        /\ threads[t].i = 2
        /\ threads[t].pc \in NoItem \ {"api"}
        /\ Len(threads[t].http) = 2
        /\ threads[t].http[1] = <<"post", "ok">>
        /\ threads[t].token

\* C11: a run that is concluida again after a restart holds the counters
\* and the (client, success flag) results it held when it was first
\* concluida.
C11_ReinicioRepete ==
    \A r \in DOMAIN historico :
        (historico[r] # SemFoto /\ execucoes[r].status = "concluida")
        => Foto(execucoes, consultas, r) = historico[r]

\* The run a messaging run was created for.
ExecucaoDoEnvio(e) == envios[e].consulta_execucao

\* Thread h sends the message of an item in this step.
Enviou(h) ==
    threads_hsm[h].pc = "enviar" /\ threads_hsm'[h].pc # "enviar"

\* C18: a messaging run is created only for a run that is concluida and has
\* a successful result, and a message is sent only while its run is
\* concluida.
C18_SoEnviaParaConcluida ==
    [][/\ Len(envios') > Len(envios)
            => LET r == envios'[Len(envios')].consulta_execucao IN
               /\ execucoes[r].status = "concluida"
               /\ ConsultasSucesso(r) # {}
       /\ \A h \in DOMAIN threads_hsm :
            Enviou(h)
            => execucoes[ExecucaoDoEnvio(threads_hsm[h].envio_id)].status = "concluida"]_vars

\* The value of the client field a mapping names.
CampoDoCliente(c, campo) ==
    IF campo = "codigo_cliente" THEN dados_cliente_hsm(c).codigo_cliente
    ELSE IF campo = "valor_fatura" THEN dados_cliente_hsm(c).valor_fatura
    ELSE dados_cliente_hsm(c).pix

\* Empty: None, the empty text or a text of spaces.
CampoVazio(valor) == valor \in {"None", "s:", "s: "}

\* C19: the item sent in a step gets template_usado = contingencia exactly
\* when the primary mapping is configured, one of the client fields it names
\* is empty, and the fallback template and mapping are both configured;
\* otherwise principal; the rows of the other items are left alone.
C19_EscolhaDoTemplate ==
    [][\A h \in DOMAIN threads_hsm :
          Enviou(h)
          => LET th == threads_hsm[h]
                 c == th.itens[th.k]
                 e == envios[th.envio_id]
                 depois == CHOOSE i \in individuais' :
                              i.envio_matrix = th.envio_id /\ i.cliente = c
             IN
             /\ depois.template_usado \in {"principal", "contingencia"}
             /\ depois.template_usado = "contingencia"
                  <=> /\ e.configuracao_variaveis # {}
                      /\ \E campo \in e.configuracao_variaveis :
                            CampoVazio(CampoDoCliente(c, campo))
                      /\ e.hsm_template_contingencia
                      /\ e.configuracao_variaveis_contingencia # {}
             /\ \A i \in individuais :
                  i.cliente # c => i \in individuais']_vars

\* C20: once the messaging thread has returned, a cancel that was accepted
\* while its loop ran has left the persisted status cancelado.
C20_CanceladoAposParar ==
    \A h \in DOMAIN threads_hsm :
        (threads_hsm[h].pc = "fim" /\ threads_hsm[h].cancelado_no_laco)
        => envios[threads_hsm[h].envio_id].status_envio = "cancelado"

\* C21: when the orchestrator has created the dispatch rows and is about to
\* enter the send loop, the rows of its messaging run are exactly one
\* pendente row per successful result of the source run, one per client, and
\* the persisted total_clientes is their number.
C21_UmPendentePorSucesso ==
    [][\A h \in DOMAIN threads_hsm :
          (threads_hsm[h].pc = "criar" /\ threads_hsm'[h].pc # "criar")
          => LET e == threads_hsm[h].envio_id
                 linhas == {i \in individuais' : i.envio_matrix = e}
                 sucesso == {c.cliente : c \in ConsultasSucesso(ExecucaoDoEnvio(e))}
             IN
             /\ \A i \in linhas : i.status = "pendente"
             /\ {i.cliente : i \in linhas} = sucesso
             /\ Cardinality(linhas) = Cardinality(sucesso)
             /\ envios'[e].total_clientes = Cardinality(linhas)]_vars

\* The row of thread h's current item in a table of dispatch rows.
ItemDe(tabela, h) ==
    CHOOSE i \in tabela : /\ i.envio_matrix = threads_hsm[h].envio_id
                          /\ i.cliente = threads_hsm[h].itens[threads_hsm[h].k]

\* C22: a call of the messaging endpoint that answers with a body leaves the
\* row enviado with the body stored and adds 1 to the sent count only; a call
\* that fails leaves the row erro with the detail of that failure stored and
\* tentativas raised by 1, and adds 1 to the error count only.
C22_ResultadoRegistrado ==
    [][\A h \in DOMAIN threads_hsm :
          Enviou(h)
          => LET antes == ItemDe(individuais, h)
                 depois == ItemDe(individuais', h)
                 resposta == threads_hsm'[h].resposta
                 enviados == threads_hsm'[h].total_enviados - threads_hsm[h].total_enviados
                 erros == threads_hsm'[h].total_erros - threads_hsm[h].total_erros
             IN
             IF resposta \in {"dados", "vazio"}
               THEN /\ depois.status = "enviado"
                    /\ TemResposta(resposta) => depois.resposta_api = resposta
                    /\ depois.tentativas = antes.tentativas
                    /\ enviados = 1 /\ erros = 0
               ELSE /\ depois.status = "erro"
                    /\ Len(depois.erro_detalhado) = 2
                    /\ depois.erro_detalhado[2] = resposta
                    /\ depois.tentativas = antes.tentativas + 1
                    /\ enviados = 0 /\ erros = 1]_vars

\* Thread h starts the item of a dispatch row in this step.
ComecouEnvio(h) ==
    threads_hsm[h].pc = "enviando" /\ threads_hsm'[h].pc = "enviar"

\* The messaging endpoint is called once per row: an item starts on a row
\* that has no result yet, and its call ends the item with a result.
C23_UmEnvioPorLinha ==
    \A h \in DOMAIN threads_hsm :
        /\ ComecouEnvio(h)
             => /\ ItemDe(individuais, h).status \notin {"enviado", "erro"}
                /\ ItemDe(individuais, h).tentativas = 0
        /\ Enviou(h)
             => /\ ItemDe(individuais', h).status \in {"enviado", "erro"}
                /\ ItemDe(individuais', h).tentativas <= 1
                /\ threads_hsm'[h].pc = "verificar"
                     => threads_hsm'[h].k = threads_hsm[h].k + 1

\* The enrichment endpoint is called once per row of a thread's pass: a
\* lookup makes at most one GET, and the thread comes back to the head of the
\* loop only with the next row.
C23_UmaConsultaPorLinha ==
    \A t \in DOMAIN threads :
        /\ Consultou(t)
             => Cardinality({k \in DOMAIN threads'[t].http :
                               threads'[t].http[k][1] = "get"}) <= 1
        /\ (threads[t].pc \in NoLaco /\ threads[t].pc # "verificar"
               /\ threads'[t].pc = "verificar")
             => threads'[t].i = threads[t].i + 1

\* C23: within a messaging run the messaging endpoint is called at most once
\* per dispatch row and within a pass over a run the enrichment endpoint at
\* most once per row, and a lookup that failed is recorded, when its item
\* ends, as a failed result of the run for the row's client.
C23_SemNovaTentativa ==
    [][/\ C23_UmEnvioPorLinha
       /\ C23_UmaConsultaPorLinha
       /\ \A t \in DOMAIN threads :
             (FimDoItem(t) /\ ConsultaFalhou(threads'[t].http))
             => \E c \in consultas' :
                   /\ c.execucao = threads[t].execucao_id
                   /\ clientes'[c.cliente].codigo_cliente = Linha(threads[t]).codigo_cliente
                   /\ ~c.sucesso_api]_vars

\* The two halves of C23 about the number of calls, without the recording.
C23_SemRepetir == [][C23_UmEnvioPorLinha /\ C23_UmaConsultaPorLinha]_vars

\* The POST answered in this step.
UltimoPedido == requisicoes'[Len(requisicoes')]

\* C24: a POST without title, template, API credential or database
\* credential, or without a value for a required variable of its template,
\* is answered with an error and creates no run and no thread; in the run of
\* an accepted POST a non-required variable without value has the default of
\* its configuration.
C24_PedidoInvalidoRecusado ==
    [][Len(requisicoes') > Len(requisicoes)
         => LET post == UltimoPedido.post
                semCampo ==
                    \/ post.titulo \in {"None", ""}
                    \/ post.template_sql = SemTemplate
                    \/ post.credencial_hubsoft = SemCredencial
                    \/ post.credencial_banco = SemCredencial
                semObrigatoria ==
                    /\ post.template_sql \in Templates
                    /\ \E v \in DOMAIN VariaveisConfig :
                          /\ VariaveisConfig[v].obrigatorio # "False"
                          /\ post.var[v] \in {"None", ""}
            IN
            /\ (semCampo \/ semObrigatoria)
                 => /\ UltimoPedido.status = "error"
                    /\ execucoes' = execucoes
                    /\ threads' = threads
            /\ UltimoPedido.status = "success"
                 => /\ Len(execucoes') = Len(execucoes) + 1
                    /\ Len(threads') = Len(threads) + 1
                    /\ threads'[Len(threads')].execucao_id = Len(execucoes')
                    /\ \A v \in DOMAIN VariaveisConfig :
                          (VariaveisConfig[v].obrigatorio = "False"
                             /\ post.var[v] \in {"None", ""})
                          => execucoes'[Len(execucoes')].valores_variaveis[v]
                               = (IF VariaveisConfig[v].valor_padrao = "ausente"
                                    THEN "" ELSE VariaveisConfig[v].valor_padrao)]_vars

\* A POST was refused for a required variable alone, and another was
\* accepted with the defaults of two variables.
C24_Testemunha ==
    /\ \E k \in DOMAIN requisicoes :
          /\ requisicoes[k].status = "error"
          /\ requisicoes[k].post.titulo = "t" /\ requisicoes[k].post.template_sql = 1
          /\ requisicoes[k].post.credencial_hubsoft = 1
          /\ requisicoes[k].post.credencial_banco = 1
          /\ requisicoes[k].post.var.a = ""
    /\ \E r \in DOMAIN execucoes :
          /\ execucoes[r].valores_variaveis # SemValores
          /\ execucoes[r].valores_variaveis.b = "pb"
          /\ execucoes[r].valores_variaveis.c = ""

\* C25: the list extrair_variaveis_do_sql returns is in increasing order
\* without duplicates, and the text substituir_variaveis produces from a
\* value for each name of the list has no placeholder for a new extraction.
C25_SemPlaceholderRestante ==
    LET nomes == extrair_variaveis_do_sql(template_sql.consulta_sql) IN
    /\ \A k \in 1..(Len(nomes) - 1) : Menor(nomes[k], nomes[k + 1])
    /\ (/\ template_sql.substituido
        /\ {template_sql.valores[k][1] : k \in DOMAIN template_sql.valores}
             = {nomes[k] : k \in DOMAIN nomes})
       => extrair_variaveis_do_sql(template_sql.sql_processado) = <<>>

\* C26: a thread that is past its call of executar_consulta_sql, whether the
\* call returned or raised, holds no open connection of that call.
C26_ConexaoLiberada ==
    \A t \in DOMAIN threads :
        threads[t].pc \notin {"carregar", "iniciar", "sql"}
        => threads[t].conn # "aberta"

\* str() of a stored value that is not None.
FormaDeTexto(valor) ==
    CASE valor = "s:" -> "" [] valor = "s: " -> " " [] valor = "s:x" -> "x"
      [] valor = "d:0" -> "0" [] valor = "d:10" -> "10"

\* C27: the variables of a dispatch row hold the empty text for a client
\* field that is None and the text form of any other value, the amount zero
\* included, so that a variable is empty or blank only when the stored field
\* is None, an empty text or a text of spaces.
C27_ZeroNaoEVazio ==
    \A i \in individuais :
        \A par \in {<<"valor_fatura", "valor_fatura">>, <<"pix", "pix_copia_cola">>} :
            LET valor == CampoDoCliente(i.cliente, par[1])
                texto == i.variaveis_utilizadas[par[2]]
            IN
            /\ texto = (IF valor = "None" THEN "" ELSE FormaDeTexto(valor))
            /\ Strip(texto) = "" <=> CampoVazio(valor)

\* The first log is the beginning of the second.
Prefixo(antes, depois) ==
    /\ Len(antes) <= Len(depois)
    /\ SubSeq(depois, 1, Len(antes)) = antes

\* C28: a step that is not a restart of the run leaves in log_execucao a
\* value that begins with the log persisted before the step.
C28_LogSoCresce ==
    [][\A r \in DOMAIN execucoes :
          ~PassoReinicio(r)
          => Prefixo(execucoes[r].log_execucao, execucoes'[r].log_execucao)]_vars

\* C29: a synchronisation keeps every variable row (its name and what the
\* admin configured), leaves a row active exactly when its name is among the
\* names extracted from the SQL text, has a row for every such name and one
\* row per name, and changes nothing when it follows a synchronisation.
C29_SincroniaDasVariaveis ==
    [][template_sql'.sincronizado
         => LET antes == template_sql.variaveis
                depois == template_sql'.variaveis
                texto == template_sql'.consulta_sql
                no_sql == {CasaVariavel(texto, i, p[1], p[2]) :
                              i \in DOMAIN texto,
                              p \in {<<FALSE, Letras \cup Digitos>>,
                                     <<TRUE, Letras \cup Digitos>>,
                                     <<FALSE, Letras \cup Digitos \cup {"-"}>>}}
                            \ {<<>>}
            IN
            /\ \A v \in antes : \E w \in depois :
                  w.nome = v.nome /\ w.obrigatorio = v.obrigatorio
            /\ \A w \in depois : w.ativo <=> w.nome \in no_sql
            /\ \A n \in no_sql : \E w \in depois : w.nome = n
            /\ \A v, w \in depois : v.nome = w.nome => v = w
            /\ template_sql.sincronizado => depois = antes]_vars

\* After a synchronisation the template has a variable the admin made
\* optional that is active, one that is inactive, and one it created.
C29_Testemunha ==
    /\ template_sql.sincronizado
    /\ \E v \in template_sql.variaveis : v.ativo /\ ~v.obrigatorio
    /\ \E v \in template_sql.variaveis : ~v.ativo
    /\ \E v \in template_sql.variaveis : v.ativo /\ v.nome \notin NomesAdmin

\* The threads that looked a client up with success and have not yet saved
\* its snapshot.
EntreConsultaESave(codigo, cred) ==
    {t \in DOMAIN threads :
        /\ threads[t].pc \in {"cliente_create", "cliente_save"}
        /\ Linha(threads[t]).codigo_cliente = codigo
        /\ threads[t].execucao.credencial_banco = cred}

\* C30: once every successful lookup of a (code, credential) has saved, the
\* snapshot of that client is the invoice of the most recent of them.
C30_FotoDaUltimaConsulta ==
    \A c \in DOMAIN clientes :
        LET codigo == clientes[c].codigo_cliente
            cred == clientes[c].credencial_banco
        IN
        (/\ cred # SemCredencial
         /\ ultima_fatura[<<codigo, cred>>] # 0
         /\ EntreConsultaESave(codigo, cred) = {})
            => clientes[c].fatura_salva = ultima_fatura[<<codigo, cred>>]

\* Thread t advances in this step (a cancel only sets its history flag).
Avanca(t) ==
    threads'[t].pc # threads[t].pc \/ threads'[t].i # threads[t].i

\* The progress a run has persisted: its two counters and its log.
Progresso(e) == <<e.total_consultados_api, e.total_erros, e.log_execucao>>

Contadores(e) == <<e.total_consultados_api, e.total_erros>>

\* Thread t writes its progress in this step: the periodic flush after an
\* item whose number is a multiple of FlushACada, or the completion; the
\* persisted counters become the thread's counts of the items it processed.
Descarga(t) ==
    LET th == threads[t]
        r == th.execucao_id
    IN
    /\ Avanca(t)
    /\ \/ th.pc = "flush" /\ th.i % FlushACada = 0
       \/ th.pc = "finalizar" /\ th.i = Len(resultados_sql[r])
    /\ Contadores(execucoes'[r]) = <<th.total_processados, th.total_erros>>
    /\ th.total_processados + th.total_erros = th.i

\* C31: while a thread of a run is in its item loop, a step of the thread
\* changes the run's persisted counters or log only as a flush after every
\* FlushACada-th item or as the completion, no other step changes the
\* persisted counters, and a flush writes the counts of the items so far.
C31_DescargaACadaDez ==
    [][\A t \in DOMAIN threads :
          LET r == threads[t].execucao_id IN
          threads[t].pc \in NoLaco \cup {"finalizar"} =>
            /\ (Avanca(t) /\ Progresso(execucoes'[r]) # Progresso(execucoes[r]))
                  => Descarga(t)
            /\ Contadores(execucoes'[r]) # Contadores(execucoes[r])
                  => \E u \in ThreadsDe(r) : Descarga(u)
            /\ (Avanca(t) /\ threads[t].pc = "flush")
                  => Descarga(t)]_vars

\* The statuses in which a messaging run is over.
FinaisDoEnvio == {"concluido", "cancelado", "erro"}

\* C32: every launched thread, of a query or of a messaging run, returns,
\* and from some moment on every run is concluida, cancelada or erro and
\* every messaging run concluido, cancelado or erro, whatever cancels
\* arrived.
C32_TodaThreadTermina ==
    <>[](/\ \A t \in DOMAIN threads : threads[t].pc = "fim"
         /\ \A h \in DOMAIN threads_hsm : threads_hsm[h].pc = "fim"
         /\ \A r \in DOMAIN execucoes : execucoes[r].status \in StatusFinais
         /\ \A e \in DOMAIN envios : envios[e].status_envio \in FinaisDoEnvio)

\* A query thread and a messaging thread have returned, each after a cancel
\* was accepted inside its loop.
C32_Testemunha ==
    /\ \E t \in DOMAIN threads :
          /\ threads[t].pc = "fim" /\ threads[t].cancelada_no_laco
          /\ execucoes[threads[t].execucao_id].status \in StatusFinais
    /\ \E h \in DOMAIN threads_hsm :
          /\ threads_hsm[h].pc = "fim" /\ threads_hsm[h].cancelado_no_laco
          /\ envios[threads_hsm[h].envio_id].status_envio \in FinaisDoEnvio

\* Messaging thread h advances in this step.
AvancaHSM(h) == threads_hsm'[h].pc # threads_hsm[h].pc

\* A step that is neither a step of a thread of run r nor a restart of r.
PedidoSobre(r) ==
    /\ \A t \in ThreadsDe(r) : ~Avanca(t)
    /\ ~PassoReinicio(r)

\* C33: while a run is concluida, cancelada or erro, a step that is not of
\* its thread and not a restart leaves its status, end time, log and results
\* as they are, and while a messaging run is not pendente or enviando a
\* step that is not of its thread leaves its row and its items as they are:
\* a cancel has no effect on either.
C33_CancelamentoRecusado ==
    [][/\ \A r \in DOMAIN execucoes :
             (execucoes[r].status \in StatusFinais /\ PedidoSobre(r))
               => /\ execucoes'[r] = execucoes[r]
                  /\ {c \in consultas' : c.execucao = r}
                        = {c \in consultas : c.execucao = r}
       /\ \A e \in DOMAIN envios :
             (/\ envios[e].status_envio \notin {"pendente", "enviando"}
              /\ \A h \in DOMAIN threads_hsm :
                    threads_hsm[h].envio_id = e => ~AvancaHSM(h))
               => /\ envios'[e] = envios[e]
                  /\ {i \in individuais' : i.envio_matrix = e}
                        = {i \in individuais : i.envio_matrix = e}]_vars

\* A run is over with a result and a messaging run of it is over with an
\* item, both threads having returned.
C33_Testemunha ==
    \E e \in DOMAIN envios :
        LET r == envios[e].consulta_execucao IN
        /\ envios[e].status_envio \in FinaisDoEnvio
        /\ execucoes[r].status \in StatusFinais
        /\ \E c \in consultas : c.execucao = r
        /\ \E i \in individuais : i.envio_matrix = e
        /\ \A t \in ThreadsDe(r) : threads[t].pc = "fim"
        /\ \A h \in DOMAIN threads_hsm : threads_hsm[h].pc = "fim"

\* C34: a thread that loaded its run already cancelled (the cancel was
\* accepted while the run was pendente, before the thread's first step)
\* does not set the run to executando and does not go on to the SQL
\* statement.
C34_CanceladaAntesDeComecar ==
    [][\A t \in DOMAIN threads :
          (/\ threads[t].pc = "iniciar"
           /\ threads[t].execucao.status = "cancelada"
           /\ Avanca(t))
             => /\ execucoes'[threads[t].execucao_id].status # "executando"
                /\ threads'[t].pc # "sql"]_vars

\* C35: every result of a run references a client whose credential is the
\* credential of the run.
C35_ResultadoNaCredencialDaExecucao ==
    \A c \in consultas :
        clientes[c.cliente].credencial_banco
            = execucoes[c.execucao].credencial_banco

\* C36: in every persisted state of a run the successes and the errors
\* counted do not exceed the rows its SQL statement returned.
C36_ContadosAteOTotal ==
    \A r \in DOMAIN execucoes :
        execucoes[r].total_consultados_api + execucoes[r].total_erros
            <= execucoes[r].total_registros_sql

\* C37: an item in status cancelado stays in status cancelado (and so is
\* never set to enviando and sent).
C37_CanceladoFica ==
    [][\A i \in individuais :
          i.status = "cancelado"
            => \E j \in individuais' :
                  /\ j.envio_matrix = i.envio_matrix
                  /\ j.cliente = i.cliente
                  /\ j.status = "cancelado"]_vars

\* C38: while a messaging run is concluido every item of it is enviado or
\* erro, the sent and the failed add up to total_clientes and
\* total_pendentes is zero.
C38_ConcluidoSemPendentes ==
    \A e \in DOMAIN envios :
        envios[e].status_envio = "concluido"
          => /\ \A i \in individuais :
                   i.envio_matrix = e => i.status \in {"enviado", "erro"}
             /\ envios[e].total_enviados + envios[e].total_erros
                   = envios[e].total_clientes
             /\ envios[e].total_pendentes = 0

\* C39: in every persisted state of a messaging run the sent, the failed
\* and the pending add up to total_clientes (a run whose total_clientes is
\* not yet recorded has all four at zero), and once the items exist
\* total_pendentes is the number of items neither enviado nor erro.
C39_TotaisDoEnvio ==
    \A e \in DOMAIN envios :
        LET itens == {i \in individuais : i.envio_matrix = e} IN
        /\ envios[e].total_enviados + envios[e].total_erros
              + envios[e].total_pendentes = envios[e].total_clientes
        /\ itens # {}
             => envios[e].total_pendentes
                  = Cardinality({i \in itens : i.status \notin {"enviado", "erro"}})

\* C40: the step that saves the client after a successful lookup of a source
\* row leaves the client's id_fatura equal to the row's invoice id, and so
\* equal to the invoice whose fields it has just stored, also when the
\* client existed before with another invoice id.
C40_FaturaDoSnapshot ==
    [][\A t \in DOMAIN threads :
          (/\ threads[t].pc = "cliente_save"
           /\ t \in DOMAIN threads'
           /\ threads'[t].pc = "consulta_get")
          => /\ clientes'[threads[t].cliente_obj].id_fatura
                    = Linha(threads[t]).id_fatura
             /\ clientes'[threads[t].cliente_obj].id_fatura
                    = clientes'[threads[t].cliente_obj].fatura_salva]_vars

====
